---- MODULE Spec2Model ----
(***************************************************************************)
(* Model of the gesture composition engine: GestureSequence.apply() and    *)
(* the Gesture / Event variants it drives                                  *)
(* (src/src/gestures/*.py, src/src/events/*.py).                           *)
(*                                                                         *)
(* Numbers.  The program computes on floats.  The model computes on        *)
(* fixed-point integers: a value v of the program is the integer           *)
(* v * Scale, and every product or quotient is rounded to the nearest      *)
(* unit (RDiv).  Angles of the sine waves are counted in 24ths of a turn   *)
(* (15 degrees), so that a frame at 24 frames per second and a phase       *)
(* shift of pi/4 or pi are whole numbers of steps.                         *)
(***************************************************************************)
EXTENDS Integers, Sequences, FiniteSets, TLC

VARIABLES
    gestures,            \* self.gestures: the declaration list
    config,              \* the constructor's limits, ranges and momentum weight
    remaining_gestures,  \* self.remaining_gestures: indices into gestures
    current_gestures,    \* self.current_gestures: constructed gesture objects
    location,            \* bone.location, per bone
    rotation_euler,      \* bone.rotation_euler, per bone
    previous_displacement_data, \* apply()'s local of the same name
    current_frame,       \* the frame last given to scene.frame_set (0: none yet)
    end_frame,           \* apply()'s local end_frame
    frame_start,         \* scene.frame_start ("unset" until apply() writes it)
    frame_end,           \* scene.frame_end
    pc,                  \* "constructed", "running", "done", "raised"
    keyframes,           \* the keyframe_insert calls made: <<bone, data_path, frame>>
    frame_log,           \* the frames given to scene.frame_set, in order
    applied,             \* the gesture.apply calls made: <<index, frame>>
    constructed,         \* the gesture constructor calls made: <<index, frame>>
    completed_frame,     \* the last frame whose turn of the loop ran to its end
    raw_displacement_data,     \* that frame's displacement data after the gesture loop
    blended_displacement_data, \* ... after the momentum loop
    clamped_displacement_data, \* ... after the acceleration loop
    limited_displacement_data, \* ... after the range limits of _insert_keyframe
    frame_results,       \* what each completed frame computed and committed
    call,                \* a single call of a function or constructor: its arguments
    result               \* ... and what it returned or raised

vars == <<gestures, config, remaining_gestures, current_gestures, location,
          rotation_euler, previous_displacement_data, current_frame, end_frame,
          frame_start, frame_end, pc, keyframes, frame_log, applied,
          constructed, completed_frame, raw_displacement_data,
          blended_displacement_data, clamped_displacement_data,
          limited_displacement_data, frame_results, call, result>>

-----------------------------------------------------------------------------
(* Bounds of the model *)

\* Declarations of the timeline family have 0 <= start_frame < MaxFrame.
MaxFrame == 3
\* The declaration lists hold 1..MaxGestures declarations.
MaxGestures == 2

-----------------------------------------------------------------------------
(* Fixed-point arithmetic *)

\* Units per 1.0
Scale == 100 * 100

Abs(x) == IF x < 0 THEN -x ELSE x

Sign(x) == IF x < 0 THEN -1 ELSE IF x > 0 THEN 1 ELSE 0

\* a / b rounded to the nearest integer, halves away from zero (b > 0)
RDivPositive(a, b) == (a \div b) + (IF 2 * (a % b) >= b THEN 1 ELSE 0)

RDiv(a, b) == IF a >= 0 THEN RDivPositive(a, b) ELSE -RDivPositive(-a, b)

\* np.inf of the default arm rotation range: larger than any value reached
Inf == 1000000000

\* math.pi / 2 of the default forearm and hand rotation ranges
HalfPi == 15708

\* sin of k * 15 degrees, in units, for k in 0..6
SinQuarter(k) ==
    CASE k = 0 -> 0
      [] k = 1 -> 2588
      [] k = 2 -> 5000
      [] k = 3 -> 7071
      [] k = 4 -> 8660
      [] k = 5 -> 9659
      [] k = 6 -> 10000

\* math.sin of k 24ths of a turn, in units
Sin24(k) ==
    LET m == k % 24
    IN  IF m <= 6 THEN SinQuarter(m)
        ELSE IF m <= 12 THEN SinQuarter(12 - m)
        ELSE IF m <= 18 THEN -SinQuarter(m - 12)
        ELSE -SinQuarter(24 - m)

-----------------------------------------------------------------------------
(* Bones, axes, vectors *)

Bones == <<"Arm", "Forearm", "Hand">>

BoneSet == {"Arm", "Forearm", "Hand"}

\* Axis.index
AxisIndex(axis) ==
    CASE axis = "X" -> 1
      [] axis = "Y" -> 2
      [] axis = "Z" -> 3

Zero3 == <<0, 0, 0>>

\* The vector of F(1), F(2), F(3)
PerAxis(F(_)) == <<F(1), F(2), F(3)>>

\* The dictionary of F(bone) for the three bones
PerBone(F(_)) == [Arm |-> F("Arm"), Forearm |-> F("Forearm"), Hand |-> F("Hand")]

VAdd(u, v) == PerAxis(LAMBDA i : u[i] + v[i])

VSub(u, v) == PerAxis(LAMBDA i : u[i] - v[i])

\* vector / duration, component by component
VDivide(u, n) == PerAxis(LAMBDA i : RDiv(u[i], n))

\* AxisAdd as it would be if the value were added on every axis
AxisAddOnEveryAxis(v, axis, x) == VAdd(v, <<x, x, x>>)

\* v with x added on one axis
AxisAdd(v, axis, x) == [v EXCEPT ![AxisIndex(axis)] = @ + x]

\* GestureSequence._get_default_displacement_data
DefaultDisplacementData ==
    PerBone(LAMBDA b : [location |-> Zero3, rotation_euler |-> Zero3])

-----------------------------------------------------------------------------
(* Configuration of a GestureSequence *)

\* translation_acceleration_limit = 0.005
DefaultTranslationAccelerationLimit == 50

\* rotation_acceleration_limit = 0.005
DefaultRotationAccelerationLimit == 50

\* momentum_weight = 0.7, in tenths
DefaultMomentumWeight == 7

\* location_range = (Vector((-5.0, -0.5, -1.5)), Vector((1.0, 2.0, 1.5)))
DefaultLocationRange == << <<-50000, -5000, -15000>>, <<10000, 20000, 15000>> >>

\* arm_rotation_range = (Euler((-inf, -inf, -inf)), Euler((inf, inf, inf)))
DefaultArmRotationRange == << <<-Inf, -Inf, -Inf>>, <<Inf, Inf, Inf>> >>

\* forearm_rotation_range = hand_rotation_range = (Euler(-pi/2 ...), Euler(pi/2 ...))
DefaultForearmRotationRange ==
    << <<-HalfPi, -HalfPi, -HalfPi>>, <<HalfPi, HalfPi, HalfPi>> >>

DefaultHandRotationRange ==
    << <<-HalfPi, -HalfPi, -HalfPi>>, <<HalfPi, HalfPi, HalfPi>> >>

\* The keyword defaults of GestureSequence.__init__
DefaultConfig ==
    [ translation_acceleration_limit |-> DefaultTranslationAccelerationLimit,
      rotation_acceleration_limit |-> DefaultRotationAccelerationLimit,
      location_range |-> DefaultLocationRange,
      arm_rotation_range |-> DefaultArmRotationRange,
      forearm_rotation_range |-> DefaultForearmRotationRange,
      hand_rotation_range |-> DefaultHandRotationRange,
      momentum_weight |-> DefaultMomentumWeight ]

\* An acceleration limit no displacement of the model exceeds
WideLimit == 100 * Scale

\* A location range no location of the model leaves
WideLocationRange == << <<-Inf, -Inf, -Inf>>, <<Inf, Inf, Inf>> >>

\* momentum_weight = 1: the previous displacement is kept
FrozenConfig == [DefaultConfig EXCEPT !.momentum_weight = 10]

\* momentum_weight = 0, a translation limit that never clamps and a rotation
\* limit of 0.2; default ranges
UnsmoothedConfig ==
    [DefaultConfig EXCEPT !.momentum_weight = 0,
                          !.translation_acceleration_limit = WideLimit,
                          !.rotation_acceleration_limit = 2000]

\* momentum_weight = 0, limits that never clamp and a location range that
\* never limits
OpenConfig ==
    [DefaultConfig EXCEPT !.momentum_weight = 0,
                          !.translation_acceleration_limit = WideLimit,
                          !.rotation_acceleration_limit = WideLimit,
                          !.location_range = WideLocationRange]

\* The default momentum_weight and ranges with a translation limit that never
\* clamps
MomentumConfig ==
    [DefaultConfig EXCEPT !.translation_acceleration_limit = WideLimit]

\* momentum_weight = 0 and a translation limit of 0.1; default ranges
ClampConfig ==
    [DefaultConfig EXCEPT !.momentum_weight = 0,
                          !.translation_acceleration_limit = 1000]

\* The configurations the model constructs a GestureSequence with
Configs == {DefaultConfig, FrozenConfig, UnsmoothedConfig, OpenConfig}

-----------------------------------------------------------------------------
(* Gesture declarations: (gesture type, args) *)

EventTypes == {"RotationEvent", "TranslationEvent"}

\* FRAME_RATE of config.py, passed as frame_rate by the generators
FrameRate == 24

\* The args of a declaration, without its frames.  vec is the vector, euler,
\* rotation or location argument; the phase shifts count 24ths of a turn and
\* the amplitude factors count units.
Args(type, bone, axis, vec, relative) ==
    [ type |-> type, bone |-> bone, axis |-> axis, vec |-> vec,
      relative |-> relative,
      start_frame |-> 0, has_end_frame |-> TRUE, end_frame |-> 1,
      frame_rate |-> FrameRate, wave_period |-> 3, wave_amplitude |-> 0,
      phase_shift |-> 0, forearm_phase_shift |-> 3, hand_phase_shift |-> 3,
      forearm_amplitude_factor |-> 5000, hand_amplitude_factor |-> 5000 ]

TranslationRelative ==
    Args("TranslationGesture", "Arm", "X", <<6000, 0, 0>>, TRUE)

TranslationAbsolute ==
    Args("TranslationGesture", "Arm", "X", <<9000, 0, 0>>, FALSE)

RotationRelative ==
    Args("RotationGesture", "Forearm", "Y", <<0, 12000, 0>>, TRUE)

RotationAbsolute ==
    Args("RotationGesture", "Hand", "Z", <<0, 0, 12000>>, FALSE)

TranslationSine ==
    [Args("TranslationSineGesture", "Arm", "X", Zero3, TRUE)
        EXCEPT !.wave_amplitude = 2000]

\* TranslationSine with phase_shift = pi
TranslationSineOpposite == [TranslationSine EXCEPT !.phase_shift = 12]

RotationSine ==
    [Args("RotationSineGesture", "Forearm", "Y", Zero3, TRUE)
        EXCEPT !.wave_amplitude = 2000, !.wave_period = 6]

RotationWave ==
    [Args("RotationWaveGesture", "Arm", "Z", Zero3, TRUE)
        EXCEPT !.wave_amplitude = 4000]

RotationEventRelative ==
    [Args("RotationEvent", "Hand", "X", <<3000, 0, 0>>, TRUE)
        EXCEPT !.has_end_frame = FALSE]

TranslationEventAbsolute ==
    [Args("TranslationEvent", "Arm", "Y", <<0, 3000, 0>>, FALSE)
        EXCEPT !.has_end_frame = FALSE]

\* args with its frames
Framed(args, s, e) == [args EXCEPT !.start_frame = s, !.end_frame = e]

\* An event's args have no end_frame (has_end_frame is FALSE and end_frame
\* is not read)
FramedEvent(args, s) == [args EXCEPT !.start_frame = s, !.end_frame = 0]

\* The end_frame a constructor hands to Gesture.__init__: Event.__init__
\* passes start_frame + 1
ConstructorEndFrame(args) ==
    IF args.type \in EventTypes THEN args.start_frame + 1 ELSE args.end_frame

\* ConstructorRaises as it would be if Gesture.__init__ let start_frame =
\* end_frame through
ConstructorRaisesUnlessEmpty(args) ==
    \/ /\ args.type \in {"TranslationSineGesture", "RotationSineGesture",
                         "RotationWaveGesture"}
       /\ args.wave_period <= 0
    \/ /\ args.type \in {"TranslationSineGesture", "RotationSineGesture"}
       /\ args.wave_amplitude < 0
    \/ args.start_frame < 0
    \/ ConstructorEndFrame(args) < 0
    \/ args.start_frame > ConstructorEndFrame(args)

\* Gesture.__init__ (and the sine/wave constructors above it): raises ValueError
ConstructorRaises(args) ==
    \/ /\ args.type \in {"TranslationSineGesture", "RotationSineGesture",
                         "RotationWaveGesture"}
       /\ args.wave_period <= 0
    \/ /\ args.type \in {"TranslationSineGesture", "RotationSineGesture"}
       /\ args.wave_amplitude < 0
    \/ args.start_frame < 0
    \/ ConstructorEndFrame(args) < 0
    \/ args.start_frame >= ConstructorEndFrame(args)

-----------------------------------------------------------------------------
(* The gestures: construction and apply *)

\* GestureObject as it would be if the ramp constructors did not copy the
\* bone's value
GestureObjectAtRest(i, args, loc, rot) ==
    [ index |-> i,
      args |-> args,
      duration |-> ConstructorEndFrame(args) - args.start_frame,
      initial |-> Zero3 ]

\* gesture_type(scene, arm, forearm, hand, **gesture_args): the object built
\* for declaration i, with the value the ramp constructors copy from the bone
GestureObject(i, args, loc, rot) ==
    [ index |-> i,
      args |-> args,
      duration |-> ConstructorEndFrame(args) - args.start_frame,
      initial |->
          CASE args.type = "TranslationGesture" -> loc["Arm"]
            [] args.type = "RotationGesture" -> rot[args.bone]
            [] OTHER -> Zero3 ]

\* (frame - 1) / frame_rate * 2 * pi * wave_period, in 24ths of a turn
WaveOffset(args, frame) ==
    ((frame - 1) * 24 * args.wave_period) \div args.frame_rate

\* sin(wave_offset + phase_shift) * wave_amplitude
WaveAt(args, frame, phase, amplitude) ==
    RDiv(Sin24(WaveOffset(args, frame) + phase) * amplitude, Scale)

\* RotationWaveGesture.__get_<bone>_rotation_at_frame
WaveBoneAt(args, bone, frame) ==
    CASE bone = "Arm" ->
            WaveAt(args, frame, args.phase_shift, args.wave_amplitude)
      [] bone = "Forearm" ->
            WaveAt(args, frame, args.phase_shift + args.forearm_phase_shift,
                   RDiv(args.wave_amplitude * args.forearm_amplitude_factor, Scale))
      [] bone = "Hand" ->
            WaveAt(args, frame,
                   args.phase_shift + args.forearm_phase_shift + args.hand_phase_shift,
                   RDiv(RDiv(args.wave_amplitude * args.forearm_amplitude_factor, Scale)
                            * args.hand_amplitude_factor, Scale))

\* Ramp as it would be if the ramp were divided over duration + 1 frames
RampOverOneMoreFrame(g) ==
    VDivide(IF g.args.relative THEN g.args.vec ELSE VSub(g.args.vec, g.initial),
            g.duration + 1)

\* The ramp of TranslationGesture.apply and RotationGesture.apply
Ramp(g) ==
    VDivide(IF g.args.relative THEN g.args.vec ELSE VSub(g.args.vec, g.initial),
            g.duration)

\* apply of the five Gesture classes: the displacement data it returns
GestureApply(g, displacement_data, frame) ==
    LET a == g.args
        sine == WaveAt(a, frame, a.phase_shift, a.wave_amplitude)
                  - WaveAt(a, frame - 1, a.phase_shift, a.wave_amplitude)
    IN  CASE a.type = "TranslationGesture" ->
                [displacement_data EXCEPT !["Arm"].location = VAdd(@, Ramp(g))]
          [] a.type = "RotationGesture" ->
                [displacement_data EXCEPT
                    ![a.bone].rotation_euler = VAdd(@, Ramp(g))]
          [] a.type = "TranslationSineGesture" ->
                [displacement_data EXCEPT
                    !["Arm"].location = AxisAdd(@, a.axis, sine)]
          [] a.type = "RotationSineGesture" ->
                [displacement_data EXCEPT
                    ![a.bone].rotation_euler = AxisAdd(@, a.axis, sine)]
          [] a.type = "RotationWaveGesture" ->
                PerBone(LAMBDA b :
                    [displacement_data[b] EXCEPT
                        !.rotation_euler =
                            AxisAdd(@, a.axis,
                                    WaveBoneAt(a, b, frame)
                                      - WaveBoneAt(a, b, frame - 1))])

\* RotationEvent.apply and TranslationEvent.apply write the bone itself,
\* insert a keyframe and return None.  st carries the bones and the keyframes.
EventApply(g, st, frame) ==
    LET a == g.args
    IN  IF a.type = "RotationEvent"
        THEN [st EXCEPT
                !.rotation_euler[a.bone] =
                    IF a.relative THEN VAdd(@, a.vec) ELSE a.vec,
                !.keyframes = @ \cup {<<a.bone, "rotation_euler", frame>>}]
        ELSE [st EXCEPT
                !.location["Arm"] =
                    IF a.relative THEN VAdd(@, a.vec) ELSE a.vec,
                !.keyframes = @ \cup {<<"Arm", "location", frame>>}]

\* ApplyOne as it would be if every gesture wrote its contribution on a
\* fresh displacement data: the last gesture of the loop overrides the others
ApplyOneOverriding(g, st, frame) ==
    IF st.raised THEN st
    ELSE LET called == [st EXCEPT !.applied = @ \cup {<<g.index, frame>>}]
         IN  IF g.args.type \in EventTypes
             THEN [EventApply(g, called, frame) EXCEPT !.returned_none = TRUE]
             ELSE IF st.returned_none
                  THEN [called EXCEPT !.raised = TRUE]
                  ELSE [called EXCEPT
                          !.displacement_data =
                              GestureApply(g, DefaultDisplacementData, frame)]

\* One turn of the loop of _get_displacement_data over self.current_gestures.
\* st.returned_none: displacement_data is None; st.raised: a gesture indexed
\* None (TypeError), which ends apply().
ApplyOne(g, st, frame) ==
    IF st.raised THEN st
    ELSE LET called == [st EXCEPT !.applied = @ \cup {<<g.index, frame>>}]
         IN  IF g.args.type \in EventTypes
             THEN [EventApply(g, called, frame) EXCEPT !.returned_none = TRUE]
             ELSE IF st.returned_none
                  THEN [called EXCEPT !.raised = TRUE]
                  ELSE [called EXCEPT
                          !.displacement_data =
                              GestureApply(g, st.displacement_data, frame)]

RECURSIVE ApplyAll(_, _, _, _)
ApplyAll(gs, k, st, frame) ==
    IF k > Len(gs) THEN st
    ELSE ApplyAll(gs, k + 1, ApplyOne(gs[k], st, frame), frame)

-----------------------------------------------------------------------------
(* GestureSequence: the steps of apply() *)

Max(a, b) == IF a >= b THEN a ELSE b

\* GestureSequence._get_end_frame
RECURSIVE EndFrameFrom(_, _, _)
EndFrameFrom(gs, k, acc) ==
    IF k > Len(gs) THEN acc
    ELSE EndFrameFrom(gs, k + 1,
            Max(acc, IF gs[k].has_end_frame THEN gs[k].end_frame
                                            ELSE gs[k].start_frame + 1))

GetEndFrame(gs) == EndFrameFrom(gs, 1, 0)

\* HasEnded as the test would read if a gesture were dropped at the frame
\* after its end_frame
HasEndedAfterEndFrame(args, frame) ==
    \/ args.has_end_frame /\ frame = args.end_frame + 1
    \/ ~args.has_end_frame /\ frame = args.start_frame + 2

\* The test of _update_current_gestures: the gesture has ended
HasEnded(args, frame) ==
    \/ args.has_end_frame /\ frame = args.end_frame
    \/ ~args.has_end_frame /\ frame = args.start_frame + 1

\* UpdateCurrentGestures as it would be if no gesture were ever dropped
KeepCurrentGestures(cur, frame) == cur

\* GestureSequence._update_current_gestures
UpdateCurrentGestures(cur, frame) ==
    SelectSeq(cur, LAMBDA g : ~HasEnded(g.args, frame))

\* Starts as the test would read if a gesture were constructed one frame late
StartsLate(args, frame) == frame = args.start_frame + 1

\* The test of _update_remaining_gestures: the gesture starts
Starts(args, frame) == frame = args.start_frame

\* GestureSequence._update_remaining_gestures, from position k of the
\* remaining list.  A constructor that raises ends the loop before
\* self.remaining_gestures is assigned.
RECURSIVE UpdateRemainingFrom(_, _, _, _, _, _, _)
UpdateRemainingFrom(decls, rem, k, st, frame, loc, rot) ==
    IF k > Len(rem) THEN st
    ELSE LET i == rem[k]
         IN  IF Starts(decls[i], frame)
             THEN IF ConstructorRaises(decls[i])
                  THEN [st EXCEPT !.raised = TRUE, !.remaining = rem,
                                  !.constructed = @ \cup {<<i, frame>>}]
                  ELSE UpdateRemainingFrom(decls, rem, k + 1,
                          [st EXCEPT
                              !.current = Append(@, GestureObject(i, decls[i], loc, rot)),
                              !.constructed = @ \cup {<<i, frame>>}],
                          frame, loc, rot)
             ELSE UpdateRemainingFrom(decls, rem, k + 1,
                      [st EXCEPT !.remaining = Append(@, i)], frame, loc, rot)

\* GestureSequence._update_remaining_gestures
UpdateRemainingGestures(decls, rem, cur, frame, loc, rot) ==
    UpdateRemainingFrom(decls, rem, 1,
        [current |-> cur, remaining |-> <<>>, raised |-> FALSE, constructed |-> {}],
        frame, loc, rot)

\* Blend as it would be with the two weights exchanged
BlendSwapped(previous, current, weight) ==
    RDiv(previous * (10 - weight) + current * weight, 10)

\* The blend of the momentum loop: weight in tenths
Blend(previous, current, weight) ==
    RDiv(previous * weight + current * (10 - weight), 10)

\* Momentum as it would be if nothing of the previous displacement were
\* carried over
MomentumWithoutPrevious(displacement_data, previous, weight) ==
    PerBone(LAMBDA b :
        [ location |->
            PerAxis(LAMBDA i : Blend(0, displacement_data[b].location[i], weight)),
          rotation_euler |->
            PerAxis(LAMBDA i : Blend(0, displacement_data[b].rotation_euler[i],
                                     weight)) ])

\* "Apply momentum" of _get_displacement_data
Momentum(displacement_data, previous, weight) ==
    PerBone(LAMBDA b :
        [ location |->
            PerAxis(LAMBDA i : Blend(previous[b].location[i],
                                     displacement_data[b].location[i], weight)),
          rotation_euler |->
            PerAxis(LAMBDA i : Blend(previous[b].rotation_euler[i],
                                     displacement_data[b].rotation_euler[i], weight)) ])

\* Clip as it would be without the acceleration limit
ClipNever(previous, current, limit) == current

\* The clip of the acceleration loop
Clip(previous, current, limit) ==
    IF Abs(current - previous) > limit
    THEN previous + Sign(current - previous) * limit
    ELSE current

\* LimitAcceleration as it would be with the translation limit used for the
\* rotations too
LimitAccelerationOneLimit(displacement_data, previous, cfg) ==
    PerBone(LAMBDA b :
        [ location |->
            PerAxis(LAMBDA i : Clip(previous[b].location[i],
                                    displacement_data[b].location[i],
                                    cfg.translation_acceleration_limit)),
          rotation_euler |->
            PerAxis(LAMBDA i : Clip(previous[b].rotation_euler[i],
                                    displacement_data[b].rotation_euler[i],
                                    cfg.translation_acceleration_limit)) ])

\* "Limit acceleration" of _get_displacement_data
LimitAcceleration(displacement_data, previous, cfg) ==
    PerBone(LAMBDA b :
        [ location |->
            PerAxis(LAMBDA i : Clip(previous[b].location[i],
                                    displacement_data[b].location[i],
                                    cfg.translation_acceleration_limit)),
          rotation_euler |->
            PerAxis(LAMBDA i : Clip(previous[b].rotation_euler[i],
                                    displacement_data[b].rotation_euler[i],
                                    cfg.rotation_acceleration_limit)) ])

\* A straight line through (x0, y0) and (x1, y1), at x
Between(x, x0, y0, x1, y1) == y0 + RDiv((y1 - y0) * (x - x0), x1 - x0)

\* SlowFactor as it would be if the limiter did not slow a step down
SlowFactorOne(x) == Scale

\* _slow_factor: -2 / (1 + exp(-10 * |x|)) + 2, in units, from its values
\* at |x| = 0, 0.025, 0.05, 0.1, 0.15, 0.2, 0.3, 0.4, 0.5, 0.75, 1.0, 1.5
SlowFactor(x) ==
    LET a == Abs(x)
    IN  CASE a <= 250 -> Between(a, 0, 10000, 250, 8756)
          [] a > 250 /\ a <= 500 -> Between(a, 250, 8756, 500, 7551)
          [] a > 500 /\ a <= 1000 -> Between(a, 500, 7551, 1000, 5379)
          [] a > 1000 /\ a <= 1500 -> Between(a, 1000, 5379, 1500, 3649)
          [] a > 1500 /\ a <= 2000 -> Between(a, 1500, 3649, 2000, 2384)
          [] a > 2000 /\ a <= 3000 -> Between(a, 2000, 2384, 3000, 949)
          [] a > 3000 /\ a <= 4000 -> Between(a, 3000, 949, 4000, 360)
          [] a > 4000 /\ a <= 5000 -> Between(a, 4000, 360, 5000, 134)
          [] a > 5000 /\ a <= 7500 -> Between(a, 5000, 134, 7500, 11)
          [] a > 7500 /\ a <= 10000 -> Between(a, 7500, 11, 10000, 1)
          [] a > 10000 /\ a <= 15000 -> Between(a, 10000, 1, 15000, 0)
          [] a > 15000 -> 0

\* GetLimitedValue as it would be without the tests of the step's direction
GetLimitedValueAnyDirection(current, displacement_value, minimum, maximum) ==
    LET next == current + displacement_value
    IN  IF next < minimum
        THEN RDiv(displacement_value * SlowFactor(minimum - next), Scale)
        ELSE IF next > maximum
             THEN RDiv(displacement_value * SlowFactor(next - maximum), Scale)
             ELSE displacement_value

\* GestureSequence._get_limited_value
GetLimitedValue(current, displacement_value, minimum, maximum) ==
    LET next == current + displacement_value
    IN  IF next < minimum /\ next < current
        THEN RDiv(displacement_value * SlowFactor(minimum - next), Scale)
        ELSE IF next > maximum /\ next > current
             THEN RDiv(displacement_value * SlowFactor(next - maximum), Scale)
             ELSE displacement_value

\* The limited displacement of one property of one bone
LimitedVector(value, displacement, range) ==
    PerAxis(LAMBDA i : GetLimitedValue(value[i], displacement[i],
                                       range[1][i], range[2][i]))

\* The match statement of _insert_rotation_keyframe
RotationRange(cfg, bone) ==
    CASE bone = "Arm" -> cfg.arm_rotation_range
      [] bone = "Forearm" -> cfg.forearm_rotation_range
      [] bone = "Hand" -> cfg.hand_rotation_range

\* LocationKeyframeSkipped as it would be without the early return
LocationKeyframeNeverSkipped(displacement_data, bone) == FALSE

\* _insert_location_keyframe leaves a zero displacement alone
LocationKeyframeSkipped(displacement_data, bone) ==
    displacement_data[bone].location = Zero3

\* _insert_rotation_keyframe leaves a zero displacement alone
RotationKeyframeSkipped(displacement_data, bone) ==
    displacement_data[bone].rotation_euler = Zero3

\* _insert_keyframe for the three bones: the displacement data as the limits
\* rewrite it in place
LimitedDisplacementData(displacement_data, loc, rot, cfg) ==
    PerBone(LAMBDA b :
        [ location |->
            IF LocationKeyframeSkipped(displacement_data, b)
            THEN displacement_data[b].location
            ELSE LimitedVector(loc[b], displacement_data[b].location,
                               cfg.location_range),
          rotation_euler |->
            IF RotationKeyframeSkipped(displacement_data, b)
            THEN displacement_data[b].rotation_euler
            ELSE LimitedVector(rot[b], displacement_data[b].rotation_euler,
                               RotationRange(cfg, b)) ])

\* StoredDisplacementData as it would be if _insert_keyframe limited a copy of
\* the displacement data
StoredDisplacementDataBeforeLimits(clamped, limited) == clamped

\* previous_displacement_data = displacement_data at the end of a turn of the
\* loop: the dictionary _get_displacement_data returned (clamped), which
\* _insert_keyframe has rewritten in place (limited)
StoredDisplacementData(clamped, limited) == limited

\* The keyframe_insert calls of _insert_keyframe for the three bones
InsertedKeyframes(displacement_data, frame) ==
    {<<b, "location", frame>> :
        b \in {c \in BoneSet : ~LocationKeyframeSkipped(displacement_data, c)}}
    \cup
    {<<b, "rotation_euler", frame>> :
        b \in {c \in BoneSet : ~RotationKeyframeSkipped(displacement_data, c)}}

-----------------------------------------------------------------------------
(* The declaration lists and the initial state *)

\* The durations of the timeline family's relative ramps
Durations == {1, 2}

\* Relative ramps of one and two frames, an absolute ramp of two frames and
\* an event at every start frame of the model, and a ramp of no frame
TimelineDeclarations ==
    {Framed(TranslationRelative, s, s + d) :
        s \in 0..(MaxFrame - 1), d \in Durations}
    \cup {Framed(TranslationAbsolute, s, s + 2) : s \in 0..(MaxFrame - 1)}
    \cup {FramedEvent(TranslationEventAbsolute, s) : s \in 0..(MaxFrame - 1)}
    \cup {Framed(TranslationRelative, MaxFrame - 1, MaxFrame - 1)}

\* Every gesture class over one window, and both events at its first frame
VarietyDeclarations ==
    {Framed(a, 1, 3) :
        a \in {TranslationRelative, TranslationAbsolute, RotationRelative,
               RotationAbsolute, TranslationSine, TranslationSineOpposite,
               RotationSine, RotationWave}}
    \cup {FramedEvent(a, 1) : a \in {RotationEventRelative, TranslationEventAbsolute}}

\* The sequences over S of length 0..n
RECURSIVE SeqsUpTo(_, _)
SeqsUpTo(S, n) ==
    IF n = 0 THEN {<<>>}
    ELSE LET shorter == SeqsUpTo(S, n - 1)
         IN  shorter \cup {Append(q, x) : q \in shorter, x \in S}

\* The relative translation of 10 units over frames 1..11
ScenarioTranslation ==
    Framed(Args("TranslationGesture", "Arm", "X", <<10 * Scale, 0, 0>>, TRUE), 1, 11)

\* The configurations of the timeline family
TimelineConfigs == {DefaultConfig, OpenConfig}

\* Two translations with a frame between them at which nothing is active
GapScenario ==
    <<Framed(TranslationRelative, 1, 2), Framed(TranslationRelative, 3, 4)>>

\* The (gestures, configuration) pairs a GestureSequence is constructed with
Constructions ==
    (SeqsUpTo(TimelineDeclarations, MaxGestures) \X TimelineConfigs)
    \cup (SeqsUpTo(VarietyDeclarations, MaxGestures) \X Configs)
    \cup ({<<ScenarioTranslation>>} \X (Configs \cup {MomentumConfig, ClampConfig}))
    \cup ({GapScenario} \X (Configs \cup {MomentumConfig}))

ZeroBones == PerBone(LAMBDA b : Zero3)

\* No single call is made in a run of apply()
NoCall == [op |-> "none"]

\* A call that has not returned
NoResult == [done |-> FALSE]

\* GestureSequence.__init__(decls, ..., **cfg), on bones at rest
AtConstruction(decls, cfg) ==
    /\ gestures = decls
    /\ config = cfg
    /\ remaining_gestures = [k \in 1..Len(decls) |-> k]
    /\ current_gestures = <<>>
    /\ location = ZeroBones
    /\ rotation_euler = ZeroBones
    /\ previous_displacement_data = DefaultDisplacementData
    /\ current_frame = 0
    /\ end_frame = 0
    /\ frame_start = "unset"
    /\ frame_end = "unset"
    /\ pc = "constructed"
    /\ keyframes = {}
    /\ frame_log = <<>>
    /\ applied = {}
    /\ constructed = {}
    /\ completed_frame = 0
    /\ raw_displacement_data = DefaultDisplacementData
    /\ blended_displacement_data = DefaultDisplacementData
    /\ clamped_displacement_data = DefaultDisplacementData
    /\ limited_displacement_data = DefaultDisplacementData
    /\ frame_results = <<>>

Init ==
    /\ \E c \in Constructions : AtConstruction(c[1], c[2])
    /\ call = NoCall
    /\ result = NoResult

-----------------------------------------------------------------------------
(* The actions *)

\* The history of the last completed frame
stages == <<completed_frame, raw_displacement_data, blended_displacement_data,
            clamped_displacement_data, limited_displacement_data,
            frame_results>>

\* apply(), up to its loop
Start ==
    /\ pc = "constructed"
    /\ pc' = "running"
    /\ end_frame' = GetEndFrame(gestures)
    /\ previous_displacement_data' = DefaultDisplacementData
    /\ UNCHANGED <<call, result, gestures, config, remaining_gestures, current_gestures,
                   location, rotation_euler, current_frame, frame_start,
                   frame_end, keyframes, frame_log, applied, constructed, stages>>

\* The frame the loop of apply() runs next
NextFrame == current_frame + 1

\* LoopHasFrame as it would be if the loop ran through end_frame
LoopHasFrameThroughEnd(frame) == frame <= end_frame

\* range(start_frame, end_frame) holds the frame (start_frame = 1 is the
\* first NextFrame)
LoopHasFrame(frame) == frame < end_frame

\* The loop of apply() has a next frame
InLoop == pc = "running" /\ LoopHasFrame(NextFrame)

\* UpdatedGestures as it would be if the retirement looked at the frame
\* before
UpdatedGesturesRetiringLate ==
    UpdateRemainingGestures(gestures, remaining_gestures,
                            UpdateCurrentGestures(current_gestures, current_frame),
                            NextFrame, location, rotation_euler)

\* The two updates that open a turn of the loop
UpdatedGestures ==
    UpdateRemainingGestures(gestures, remaining_gestures,
                            UpdateCurrentGestures(current_gestures, NextFrame),
                            NextFrame, location, rotation_euler)

\* The gesture loop of _get_displacement_data at the next frame
AppliedGestures(cur) ==
    ApplyAll(cur, 1,
        [ displacement_data |-> DefaultDisplacementData,
          returned_none |-> FALSE, raised |-> FALSE,
          location |-> location, rotation_euler |-> rotation_euler,
          keyframes |-> keyframes, applied |-> applied ],
        NextFrame)

\* What one turn of the loop computes and commits: the displacement data
\* after the gesture loop, the momentum loop, the acceleration loop and the
\* range limits, the bones and the keyframes inserted
FrameResult(raw, blended, clamped, limited, loc, rot, inserted) ==
    [ raw |-> raw, blended |-> blended, clamped |-> clamped,
      limited |-> limited, location |-> loc, rotation_euler |-> rot,
      keyframes |-> inserted ]

\* One turn of the loop of apply(), in which a gesture constructor raises
\* (upd is bound to the one value of UpdatedGestures)
FrameConstructorRaises ==
    /\ InLoop
    /\ \E upd \in {UpdatedGestures} :
        /\ upd.raised
        /\ current_gestures' = upd.current
        /\ constructed' = constructed \cup upd.constructed
    /\ pc' = "raised"
    /\ current_frame' = NextFrame
    /\ frame_log' = Append(frame_log, NextFrame)
    /\ UNCHANGED <<call, result, gestures, config, remaining_gestures, location,
                   rotation_euler, previous_displacement_data, end_frame,
                   frame_start, frame_end, keyframes, applied, stages>>

\* One turn of the loop of apply(), in which an event's apply returns None
\* and the next use of the displacement data raises TypeError
FrameApplyRaises ==
    /\ InLoop
    /\ \E upd \in {UpdatedGestures} :
        /\ ~upd.raised
        /\ current_gestures' = upd.current
        /\ remaining_gestures' = upd.remaining
        /\ constructed' = constructed \cup upd.constructed
        /\ \E app \in {AppliedGestures(upd.current)} :
            /\ app.raised \/ app.returned_none
            /\ location' = app.location
            /\ rotation_euler' = app.rotation_euler
            /\ keyframes' = app.keyframes
            /\ applied' = app.applied
    /\ pc' = "raised"
    /\ current_frame' = NextFrame
    /\ frame_log' = Append(frame_log, NextFrame)
    /\ UNCHANGED <<call, result, gestures, config, previous_displacement_data, end_frame,
                   frame_start, frame_end, stages>>

\* One turn of the loop of apply() that runs to its end
Frame ==
    /\ InLoop
    /\ \E upd \in {UpdatedGestures} :
        /\ ~upd.raised
        /\ current_gestures' = upd.current
        /\ remaining_gestures' = upd.remaining
        /\ constructed' = constructed \cup upd.constructed
        /\ \E app \in {AppliedGestures(upd.current)} :
            /\ ~(app.raised \/ app.returned_none)
            /\ applied' = app.applied
            /\ raw_displacement_data' = app.displacement_data
    /\ blended_displacement_data' =
          Momentum(raw_displacement_data', previous_displacement_data,
                   config.momentum_weight)
    /\ clamped_displacement_data' =
          LimitAcceleration(blended_displacement_data',
                            previous_displacement_data, config)
    /\ limited_displacement_data' =
          LimitedDisplacementData(clamped_displacement_data', location,
                                  rotation_euler, config)
    /\ location' =
          PerBone(LAMBDA b :
              VAdd(location[b], limited_displacement_data'[b].location))
    /\ rotation_euler' =
          PerBone(LAMBDA b :
              VAdd(rotation_euler[b], limited_displacement_data'[b].rotation_euler))
    /\ previous_displacement_data' =
          StoredDisplacementData(clamped_displacement_data',
                                 limited_displacement_data')
    /\ keyframes' =
          keyframes \cup InsertedKeyframes(clamped_displacement_data', NextFrame)
    /\ current_frame' = NextFrame
    /\ completed_frame' = NextFrame
    /\ frame_log' = Append(frame_log, NextFrame)
    /\ frame_results' =
          Append(frame_results,
                 FrameResult(raw_displacement_data', blended_displacement_data',
                             clamped_displacement_data',
                             limited_displacement_data', location',
                             rotation_euler',
                             InsertedKeyframes(clamped_displacement_data',
                                               NextFrame)))
    /\ UNCHANGED <<call, result, gestures, config, end_frame, frame_start, frame_end, pc>>

\* apply(), after its loop
Finish ==
    /\ pc = "running"
    /\ ~LoopHasFrame(NextFrame)
    /\ pc' = "done"
    /\ frame_start' = 0
    /\ frame_end' = end_frame - 1
    /\ UNCHANGED <<call, result, gestures, config, remaining_gestures, current_gestures,
                   location, rotation_euler, previous_displacement_data,
                   current_frame, end_frame, keyframes, frame_log, applied,
                   constructed, stages>>

Next ==
    \/ Start
    \/ Frame
    \/ FrameConstructorRaises
    \/ FrameApplyRaises
    \/ Finish

Spec == Init /\ [][Next]_vars

-----------------------------------------------------------------------------
(* Vocabulary of the properties *)

Indices == 1..Len(gestures)

\* The frame at which the spec counts a declaration as ended
DeclaredEnd(args) ==
    IF args.has_end_frame THEN args.end_frame ELSE args.start_frame + 1

\* The maximum end frame over the declarations (0 for the empty list)
EndFrameMax ==
    IF gestures = <<>> THEN 0
    ELSE CHOOSE m \in {DeclaredEnd(gestures[i]) : i \in Indices} :
            \A i \in Indices : DeclaredEnd(gestures[i]) <= m

\* Every declaration passes its constructor's checks
ConstructsWithoutError == \A i \in Indices : ~ConstructorRaises(gestures[i])

HasEvent == \E i \in Indices : gestures[i].type \in EventTypes

\* Declaration i is Pending / Active
IsPending(i) == \E k \in 1..Len(remaining_gestures) : remaining_gestures[k] = i

IsActive(i) == \E k \in 1..Len(current_gestures) : current_gestures[k].index = i

WasConstructed(i) == \E f \in 0..end_frame : <<i, f>> \in constructed

\* The last frame given to the scene ran its turn of the loop to the end
FrameCompleted == current_frame >= 1 /\ completed_frame = current_frame

-----------------------------------------------------------------------------
(* C1 *)

\* C1 (as claimed): for a non-empty declaration list whose gestures construct
\* without error, apply() steps the clock through 1, 2, ..., EndFrameMax - 1,
\* each frame once and in increasing order, never simulates EndFrameMax,
\* then terminates (it does not raise) and sets the animation range to
\* [0, EndFrameMax - 1].
C1_RunsEveryFrameAndSetsRange ==
    (gestures # <<>> /\ ConstructsWithoutError) =>
        /\ pc # "raised"
        /\ \A k \in 1..Len(frame_log) : frame_log[k] = k
        /\ Len(frame_log) <= Max(EndFrameMax - 1, 0)
        /\ pc = "done" =>
              /\ Len(frame_log) = Max(EndFrameMax - 1, 0)
              /\ frame_start = 0
              /\ frame_end = EndFrameMax - 1

\* C1 without the events, whose apply ends the run (C6): the same statement
\* for the lists that declare no event
C1_RunsEveryFrameWithoutEvents ==
    (gestures # <<>> /\ ConstructsWithoutError /\ ~HasEvent) =>
        /\ pc # "raised"
        /\ \A k \in 1..Len(frame_log) : frame_log[k] = k
        /\ Len(frame_log) <= Max(EndFrameMax - 1, 0)
        /\ pc = "done" =>
              /\ Len(frame_log) = Max(EndFrameMax - 1, 0)
              /\ frame_start = 0
              /\ frame_end = EndFrameMax - 1

-----------------------------------------------------------------------------
(* C2 *)

\* The gesture object of declaration i in the active list cur
ObjectOf(cur, i) == cur[CHOOSE k \in 1..Len(cur) : cur[k].index = i]

C2_Step ==
    \A i \in Indices :
        /\ (\E f \in 0..end_frame : <<i, f>> \in constructed' \ constructed) =>
              \* constructed at its start frame, and at that frame only
              /\ current_frame' = gestures[i].start_frame
              /\ <<i, current_frame'>> \in constructed'
              /\ ~WasConstructed(i)
              /\ IsPending(i)
              \* a constructor that returns moves it to the active list, with
              \* the joint value as the previous frame's commit left it
              /\ ~ConstructorRaises(gestures[i]) =>
                    /\ \E k \in 1..Len(current_gestures') :
                          current_gestures'[k].index = i
                    /\ gestures[i].type = "TranslationGesture" =>
                          ObjectOf(current_gestures', i).initial = location["Arm"]
                    /\ gestures[i].type = "RotationGesture" =>
                          ObjectOf(current_gestures', i).initial =
                              rotation_euler[gestures[i].bone]
        \* it leaves the remaining queue only by being constructed
        /\ (IsPending(i) /\ ~(\E k \in 1..Len(remaining_gestures') :
                                  remaining_gestures'[k] = i)) =>
              /\ <<i, current_frame'>> \in constructed' \ constructed
              /\ current_frame' = gestures[i].start_frame
        \* not later: once its start frame has run, it is pending no more
        /\ (pc' \in {"running", "done"}
              /\ gestures[i].start_frame >= 1
              /\ gestures[i].start_frame <= current_frame') =>
              /\ ~(\E k \in 1..Len(remaining_gestures') : remaining_gestures'[k] = i)
              /\ <<i, gestures[i].start_frame>> \in constructed'

\* C2: a declaration leaves the remaining queue and is constructed exactly at
\* the frame current_frame = start_frame, not earlier and not later, and
\* after the previous frame's commit: a ramp gesture captures the joint value
\* committed through frame start_frame - 1.
C2_PromotedExactlyAtStartFrame == [][C2_Step]_vars

\* An absolute translation was constructed after the arm had moved
C2_Witness ==
    \E k \in 1..Len(current_gestures) :
        /\ current_gestures[k].args.type = "TranslationGesture"
        /\ ~current_gestures[k].args.relative
        /\ current_gestures[k].args.start_frame = 2
        /\ current_gestures[k].initial # Zero3
        /\ pc = "running"

-----------------------------------------------------------------------------
(* C3 *)

\* C3 (as claimed): a multi-frame gesture is still Active at frame end_frame
\* itself (it is dropped at the frame after end_frame).
C3_ActiveAtEndFrame ==
    \A i \in Indices :
        (/\ gestures[i].has_end_frame
         /\ <<i, gestures[i].start_frame>> \in constructed
         /\ ~ConstructorRaises(gestures[i])
         /\ FrameCompleted
         /\ current_frame = gestures[i].end_frame) => IsActive(i)

\* C3 (amended): a multi-frame gesture is Active at the frames
\* start_frame .. end_frame - 1 and is dropped at frame end_frame itself, when
\* that frame is simulated; a declaration without end_frame is in the active
\* set at frame start_frame only.
C3_ActiveUntilEndFrame ==
    \A i \in Indices :
        /\ IsActive(i) =>
              /\ gestures[i].start_frame <= current_frame
              /\ current_frame < DeclaredEnd(gestures[i])
        /\ (pc \in {"running", "done"} /\ gestures[i].has_end_frame) =>
              (IsActive(i) <=> /\ 1 <= gestures[i].start_frame
                               /\ gestures[i].start_frame <= current_frame
                               /\ current_frame < gestures[i].end_frame)

\* A gesture has been dropped at its end_frame, with the run going on
C3_Witness ==
    \E i \in Indices :
        /\ gestures[i].has_end_frame
        /\ <<i, gestures[i].start_frame>> \in constructed
        /\ current_frame = gestures[i].end_frame
        /\ FrameCompleted
        /\ ~IsActive(i)

-----------------------------------------------------------------------------
(* C4 *)

\* C4: a gesture declared with start_frame = s and end_frame = s + d has its
\* apply called at no frame f < s and at no frame f >= s + d, whatever other
\* gestures are declared.
C4_AppliedOnlyInsideWindow ==
    \A c \in applied :
        gestures[c[1]].has_end_frame =>
            /\ gestures[c[1]].start_frame <= c[2]
            /\ c[2] < gestures[c[1]].end_frame

\* A gesture was applied on its last frame and the run went on past its
\* end_frame, next to another gesture
C4_Witness ==
    \E i \in Indices :
        /\ Len(gestures) >= 2
        /\ gestures[i].has_end_frame
        /\ <<i, gestures[i].end_frame - 1>> \in applied
        /\ <<i, gestures[i].start_frame>> \in applied
        /\ FrameCompleted
        /\ current_frame >= gestures[i].end_frame
        /\ \E j \in Indices : j # i /\ <<j, current_frame>> \in applied

-----------------------------------------------------------------------------
(* C5 *)

\* What gesture g alone adds to an empty displacement data at a frame
Contribution(g, frame) == GestureApply(g, DefaultDisplacementData, frame)

\* The sum of two displacement data, per bone and per component
DataAdd(d, e) ==
    PerBone(LAMBDA b :
        [ location |-> VAdd(d[b].location, e[b].location),
          rotation_euler |-> VAdd(d[b].rotation_euler, e[b].rotation_euler) ])

\* d with every component negated
DataNegated(d) ==
    PerBone(LAMBDA b :
        [ location |-> VSub(Zero3, d[b].location),
          rotation_euler |-> VSub(Zero3, d[b].rotation_euler) ])

RECURSIVE SumOfContributions(_, _, _)
SumOfContributions(gs, k, frame) ==
    IF k > Len(gs) THEN DefaultDisplacementData
    ELSE DataAdd(Contribution(gs[k], frame), SumOfContributions(gs, k + 1, frame))

\* The declaration list in the order p, a permutation of its indices
Permuted(decls, p) == [k \in 1..Len(decls) |-> decls[p[k]]]

\* apply() on the declaration list decls from frame on: the results of the
\* frames it completes.  st carries self.remaining_gestures,
\* self.current_gestures, the bones and previous_displacement_data.
RECURSIVE RunFrames(_, _, _, _)
RunFrames(decls, cfg, st, frame) ==
    IF ~(frame < GetEndFrame(decls)) THEN st.results
    ELSE LET upd == UpdateRemainingGestures(decls, st.remaining,
                        UpdateCurrentGestures(st.current, frame), frame,
                        st.location, st.rotation_euler)
             app == ApplyAll(upd.current, 1,
                        [ displacement_data |-> DefaultDisplacementData,
                          returned_none |-> FALSE, raised |-> FALSE,
                          location |-> st.location,
                          rotation_euler |-> st.rotation_euler,
                          keyframes |-> {}, applied |-> {} ],
                        frame)
             raw == app.displacement_data
             blended == Momentum(raw, st.previous, cfg.momentum_weight)
             clamped == LimitAcceleration(blended, st.previous, cfg)
             limited == LimitedDisplacementData(clamped, st.location,
                                                st.rotation_euler, cfg)
             loc == PerBone(LAMBDA b : VAdd(st.location[b], limited[b].location))
             rot == PerBone(LAMBDA b :
                        VAdd(st.rotation_euler[b], limited[b].rotation_euler))
         IN  IF upd.raised THEN st.results
             ELSE IF app.raised \/ app.returned_none THEN st.results
             ELSE RunFrames(decls, cfg,
                     [ remaining |-> upd.remaining, current |-> upd.current,
                       location |-> loc, rotation_euler |-> rot,
                       previous |-> limited,
                       results |-> Append(st.results,
                           FrameResult(raw, blended, clamped, limited, loc, rot,
                                       InsertedKeyframes(clamped, frame))) ],
                     frame + 1)

\* apply() on a GestureSequence just constructed on bones at rest
RunResults(decls, cfg) ==
    RunFrames(decls, cfg,
        [ remaining |-> [k \in 1..Len(decls) |-> k], current |-> <<>>,
          location |-> ZeroBones, rotation_euler |-> ZeroBones,
          previous |-> DefaultDisplacementData, results |-> <<>> ],
        1)

\* C5: at every frame the displacement data after the gesture loop (before
\* momentum) is, per bone and per component, the sum of the contributions of
\* the active gestures; the result of every frame of the run (summed,
\* blended, clamped and limited displacement, bone values, keyframes) is the
\* same for every permutation of the declaration list; two active gestures
\* whose contributions are negations of each other sum to zero.
C5_AdditiveAndOrderIndependent ==
    /\ FrameCompleted =>
          /\ raw_displacement_data =
                SumOfContributions(current_gestures, 1, current_frame)
          /\ \A k \in 1..Len(current_gestures) :
                \A l \in (k + 1)..Len(current_gestures) :
                   (/\ Len(current_gestures) = 2
                    /\ Contribution(current_gestures[k], current_frame) =
                          DataNegated(Contribution(current_gestures[l],
                                                   current_frame)))
                   => raw_displacement_data = DefaultDisplacementData
    /\ pc \in {"done", "raised"} =>
          \A p \in Permutations(Indices) :
             RunResults(Permuted(gestures, p), config) = frame_results

\* Two different gestures added non-zero contributions to the same component
\* at a frame the run has completed, and the run is over
C5_Witness ==
    /\ pc = "done"
    /\ FrameCompleted
    /\ \E k \in 1..Len(current_gestures) :
          \E l \in (k + 1)..Len(current_gestures) :
             LET ck == Contribution(current_gestures[k], current_frame)
                 cl == Contribution(current_gestures[l], current_frame)
             IN  /\ current_gestures[k].args # current_gestures[l].args
                 /\ ck["Arm"].location[1] # 0
                 /\ cl["Arm"].location[1] # 0
                 /\ raw_displacement_data["Arm"].location[1] =
                       ck["Arm"].location[1] + cl["Arm"].location[1]
                 /\ raw_displacement_data["Arm"].location[1] # 0

-----------------------------------------------------------------------------
(* C6 *)

\* The bones and the keyframes as the completed frames committed them
CommittedLocation ==
    IF frame_results = <<>> THEN ZeroBones
    ELSE frame_results[Len(frame_results)].location

CommittedRotation ==
    IF frame_results = <<>> THEN ZeroBones
    ELSE frame_results[Len(frame_results)].rotation_euler

CommittedKeyframes ==
    UNION {frame_results[k].keyframes : k \in 1..Len(frame_results)}

\* C6 (as claimed): the apply of every gesture variant the active set can
\* hold, the events included, writes only to the displacement data passed in
\* and returns it: no apply changes a bone or inserts a keyframe itself (the
\* bones and the keyframes are those the sequence committed), and every
\* frame in which a gesture was applied runs to its end (the next use of the
\* displacement data finds a valid one).
C6_ApplyWritesOnlyDisplacementData ==
    /\ location = CommittedLocation
    /\ rotation_euler = CommittedRotation
    /\ keyframes = CommittedKeyframes
    /\ \A c \in applied : c[2] <= completed_frame

-----------------------------------------------------------------------------
(* C7 *)

\* The displacement stored from the frame before the k-th completed frame
StoredBefore(k) ==
    IF k = 1 THEN DefaultDisplacementData ELSE frame_results[k - 1].limited

\* C7: at every frame, for every bone and component, the displacement the
\* acceleration loop leaves differs from the displacement stored from the
\* previous frame by at most the limit: the translation limit for location,
\* the rotation limit for rotation_euler.
C7_ClampedWithinLimit ==
    \A k \in 1..Len(frame_results) :
        \A b \in BoneSet : \A i \in 1..3 :
            /\ Abs(frame_results[k].clamped[b].location[i]
                     - StoredBefore(k)[b].location[i])
                  <= config.translation_acceleration_limit
            /\ Abs(frame_results[k].clamped[b].rotation_euler[i]
                     - StoredBefore(k)[b].rotation_euler[i])
                  <= config.rotation_acceleration_limit

\* With a rotation limit of 0.2 and a larger translation limit, a frame
\* clipped a rotation to the limit and left a larger location step unclipped
C7_Witness ==
    /\ FrameCompleted
    /\ config.rotation_acceleration_limit < config.translation_acceleration_limit
    /\ \E b \in BoneSet : \E i \in 1..3 :
          /\ Abs(blended_displacement_data[b].rotation_euler[i]
                   - StoredBefore(Len(frame_results))[b].rotation_euler[i])
                > config.rotation_acceleration_limit
          /\ Abs(clamped_displacement_data[b].rotation_euler[i]
                   - StoredBefore(Len(frame_results))[b].rotation_euler[i])
                = config.rotation_acceleration_limit
    /\ \E b \in BoneSet : \E i \in 1..3 :
          /\ Abs(clamped_displacement_data[b].location[i]
                   - StoredBefore(Len(frame_results))[b].location[i])
                > config.rotation_acceleration_limit
          /\ clamped_displacement_data[b].location[i]
                = blended_displacement_data[b].location[i]

-----------------------------------------------------------------------------
(* C8 *)

\* The run of the scenario: one relative translation of (10, 0, 0) over
\* frames 1..11
InScenario == gestures = <<ScenarioTranslation>> /\ FrameCompleted

\* The displacement committed to the arm's location.x at the last frame
ArmStepX == frame_results[Len(frame_results)].limited["Arm"].location[1]

\* C8 (as claimed): with the constructor defaults, the scenario moves the
\* arm's location.x by exactly 1.0 at each of the frames 1..10, 10 in all
\* after frame 10.
C8_DefaultsMoveOnePerFrame ==
    (InScenario /\ config = DefaultConfig) =>
        /\ ArmStepX = Scale
        /\ location["Arm"][1] = current_frame * Scale

\* C8 (amended): with momentum_weight = 0, a translation acceleration limit
\* of at least 1.0 and a location range that holds x in [0, 10], the
\* scenario moves the arm's location.x by exactly 1.0 at each of the frames
\* 1..10 and by 10 in all; with the constructor defaults the step at frame f
\* is 0.005 * f (the acceleration limit), 0.275 in all after frame 10.
C8_OnePerFrameWithoutSmoothing ==
    /\ (InScenario /\ config = OpenConfig) =>
          /\ ArmStepX = Scale
          /\ location["Arm"][1] = current_frame * Scale
          /\ pc = "done" => location["Arm"][1] = 10 * Scale
    /\ (InScenario /\ config = DefaultConfig) =>
          /\ ArmStepX = DefaultTranslationAccelerationLimit * current_frame
          /\ 2 * location["Arm"][1] =
                DefaultTranslationAccelerationLimit * current_frame
                    * (current_frame + 1)
          /\ pc = "done" => 1000 * location["Arm"][1] = 275 * Scale

\* The scenario has run its ten frames under the constructor defaults
C8_Witness ==
    /\ InScenario
    /\ config = DefaultConfig
    /\ pc = "done"
    /\ current_frame = 10
    /\ Len(frame_results) = 10
    /\ raw_displacement_data["Arm"].location[1] = Scale
    /\ location["Arm"][1] < Scale

-----------------------------------------------------------------------------
(* C10 *)

\* C10: at every frame, for every bone and each of the 6 components, the
\* momentum loop leaves previous * w + current * (1 - w), where current is
\* the sum of the contributions of the active gestures at the frame,
\* previous the displacement stored from the frame before (zero before
\* frame 1) and w the momentum weight (in tenths; the equality is up to the
\* rounding of the last unit).
C10_MomentumBlend ==
    /\ FrameCompleted =>
          raw_displacement_data =
              SumOfContributions(current_gestures, 1, current_frame)
    /\ \A k \in 1..Len(frame_results) :
          \A b \in BoneSet : \A i \in 1..3 :
             /\ Abs(10 * frame_results[k].blended[b].location[i]
                      - (StoredBefore(k)[b].location[i] * config.momentum_weight
                         + frame_results[k].raw[b].location[i]
                             * (10 - config.momentum_weight))) <= 5
             /\ Abs(10 * frame_results[k].blended[b].rotation_euler[i]
                      - (StoredBefore(k)[b].rotation_euler[i]
                             * config.momentum_weight
                         + frame_results[k].raw[b].rotation_euler[i]
                             * (10 - config.momentum_weight))) <= 5

\* A frame after the first blended a non-zero stored displacement with a
\* non-zero sum under the default weight of 0.7
C10_Witness ==
    /\ FrameCompleted
    /\ current_frame >= 2
    /\ config.momentum_weight = DefaultMomentumWeight
    /\ \E b \in BoneSet : \E i \in 1..3 :
          /\ StoredBefore(Len(frame_results))[b].location[i] # 0
          /\ raw_displacement_data[b].location[i] # 0
          /\ blended_displacement_data[b].location[i]
                # raw_displacement_data[b].location[i]
          /\ blended_displacement_data[b].location[i]
                # StoredBefore(Len(frame_results))[b].location[i]

-----------------------------------------------------------------------------
(* C9 *)

\* Declaration i is a ramp to an absolute target
IsAbsoluteRamp(i) ==
    /\ gestures[i].type \in {"TranslationGesture", "RotationGesture"}
    /\ ~gestures[i].relative

\* The apply of a declaration writes the property (path of bone)
Touches(args, path, bone) ==
    CASE args.type \in {"TranslationGesture", "TranslationSineGesture",
                        "TranslationEvent"} ->
             path = "location" /\ bone = "Arm"
      [] args.type \in {"RotationGesture", "RotationSineGesture",
                        "RotationEvent"} ->
             path = "rotation_euler" /\ bone = args.bone
      [] args.type = "RotationWaveGesture" -> path = "rotation_euler"

PathOf(i) ==
    IF gestures[i].type = "TranslationGesture" THEN "location"
    ELSE "rotation_euler"

BoneOf(i) == IF gestures[i].type = "TranslationGesture" THEN "Arm"
             ELSE gestures[i].bone

\* The value of the property declaration i ramps
JointOf(i) ==
    IF gestures[i].type = "TranslationGesture" THEN location["Arm"]
    ELSE rotation_euler[gestures[i].bone]

\* No other gesture was applied to the property of declaration i at the
\* frames of its window
ActsAlone(i) ==
    \A c \in applied :
        (/\ c[1] # i
         /\ gestures[i].start_frame <= c[2]
         /\ c[2] < gestures[i].end_frame)
        => ~Touches(gestures[c[1]], PathOf(i), BoneOf(i))

\* The last frame of declaration i has just been committed
DurationElapsed(i) ==
    /\ FrameCompleted
    /\ current_frame = gestures[i].end_frame - 1
    /\ ~ConstructorRaises(gestures[i])

\* C9 (as claimed): for any ramp with relative = False that is the only
\* gesture acting on its property, once its end_frame - start_frame frames
\* have elapsed the property equals the target.
C9_AbsoluteRampReachesTarget ==
    \A i \in Indices :
        (IsAbsoluteRamp(i) /\ ActsAlone(i) /\ DurationElapsed(i)) =>
            JointOf(i) = gestures[i].vec

\* The limit and the range the sequence applies to the property of i
LimitOf(i) ==
    IF PathOf(i) = "location" THEN config.translation_acceleration_limit
    ELSE config.rotation_acceleration_limit

RangeOf(i) ==
    IF PathOf(i) = "location" THEN config.location_range
    ELSE RotationRange(config, BoneOf(i))

\* No smoothing acts on the ramp of i: no momentum, an acceleration limit no
\* step of the run exceeds, the target inside the range
Unsmoothed(i) ==
    /\ config.momentum_weight = 0
    /\ LimitOf(i) >= WideLimit
    /\ \A a \in 1..3 : /\ RangeOf(i)[1][a] <= gestures[i].vec[a]
                        /\ gestures[i].vec[a] <= RangeOf(i)[2][a]

\* C9 (amended): for a ramp with relative = False and start_frame >= 1 that
\* is the only gesture acting on its property, run with momentum_weight = 0,
\* an acceleration limit that never clips and its target inside the
\* property's range, the property equals the target once frame
\* end_frame - 1 is committed, up to the rounding of the per-frame step (at
\* most one unit per frame of the ramp).  A ramp with start_frame = 0 is
\* never constructed nor applied: the loop starts at frame 1.
C9_UnsmoothedRampReachesTarget ==
    \A i \in Indices :
        /\ (/\ IsAbsoluteRamp(i)
            /\ ActsAlone(i)
            /\ DurationElapsed(i)
            /\ gestures[i].start_frame >= 1
            /\ Unsmoothed(i)) =>
               \A a \in 1..3 :
                   Abs(JointOf(i)[a] - gestures[i].vec[a])
                       <= gestures[i].end_frame - gestures[i].start_frame
        /\ (IsAbsoluteRamp(i) /\ gestures[i].start_frame = 0) =>
               /\ ~WasConstructed(i)
               /\ \A c \in applied : c[1] # i

\* An absolute ramp that started away from rest and from its target has run
\* its frames without smoothing and reached the target
C9_Witness ==
    \E i \in Indices :
        /\ IsAbsoluteRamp(i)
        /\ ActsAlone(i)
        /\ DurationElapsed(i)
        /\ gestures[i].start_frame >= 1
        /\ gestures[i].end_frame - gestures[i].start_frame >= 2
        /\ Unsmoothed(i)
        /\ IsActive(i)
        /\ ObjectOf(current_gestures, i).initial # Zero3
        /\ ObjectOf(current_gestures, i).initial # gestures[i].vec
        /\ JointOf(i) = gestures[i].vec

-----------------------------------------------------------------------------
(* C11 *)

\* Every completed frame left each displacement at the stored value of the
\* frame before, the bones are at rest and no keyframe was inserted
Frozen ==
    /\ \A k \in 1..Len(frame_results) :
          /\ frame_results[k].blended = StoredBefore(k)
          /\ frame_results[k].limited = StoredBefore(k)
    /\ location = ZeroBones
    /\ rotation_euler = ZeroBones
    /\ keyframes = {}

\* C11 (as claimed): with momentum_weight = 1, at every frame every
\* displacement component equals the previous frame's displacement, so from
\* the zero displacement no joint value ever changes and no keyframe is ever
\* inserted, whatever gestures are active.
C11_FrozenAtWeightOne == config.momentum_weight = 10 => Frozen

\* C11 without the events, whose apply writes the bone itself (C6): the same
\* statement for the lists that declare no event
C11_FrozenWithoutEvents ==
    (config.momentum_weight = 10 /\ ~HasEvent) => Frozen

-----------------------------------------------------------------------------
(* Single calls of functions and constructors *)

\* The variables of a GestureSequence and its run, which a single call of
\* another function leaves alone
sequence_vars ==
    <<gestures, config, remaining_gestures, current_gestures, location,
      rotation_euler, previous_displacement_data, current_frame, end_frame,
      frame_start, frame_end, pc, keyframes, frame_log, applied, constructed,
      completed_frame, raw_displacement_data, blended_displacement_data,
      clamped_displacement_data, limited_displacement_data, frame_results>>

\* The result of a call that returned value
Returned(value) == [done |-> TRUE, raised |-> FALSE, value |-> value]

\* The result of a call that raised ValueError
RaisedValueError == [done |-> TRUE, raised |-> TRUE, value |-> "ValueError"]

-----------------------------------------------------------------------------
(* C12 *)

\* Current values and displacements are drawn from -ProbeSteps..ProbeSteps
\* steps of 0.1777 and 0.1301
ProbeSteps == 6

\* The [min, max] of a component: location y and z, forearm and hand
\* rotation, arm rotation of the constructor defaults
ProbeRanges ==
    { <<DefaultLocationRange[1][2], DefaultLocationRange[2][2]>>,
      <<DefaultLocationRange[1][3], DefaultLocationRange[2][3]>>,
      <<DefaultForearmRotationRange[1][1], DefaultForearmRotationRange[2][1]>>,
      <<DefaultArmRotationRange[1][1], DefaultArmRotationRange[2][1]>> }

\* The calls _get_limited_value(current, displacement_value, minimum, maximum)
LimitedValueCalls ==
    { [ op |-> "_get_limited_value", current |-> c * 1777,
        displacement_value |-> d * 1301, minimum |-> r[1], maximum |-> r[2] ] :
        c \in (-ProbeSteps)..ProbeSteps, d \in (-ProbeSteps)..ProbeSteps,
        r \in ProbeRanges }

\* GestureSequence._get_limited_value is called and returns
CallGetLimitedValue ==
    /\ call.op = "_get_limited_value"
    /\ ~result.done
    /\ result' = Returned(GetLimitedValue(call.current, call.displacement_value,
                                          call.minimum, call.maximum))
    /\ UNCHANGED <<call, sequence_vars>>

\* C12: _get_limited_value only attenuates.  For every current value,
\* displacement and [min, max] it returns the displacement times a factor in
\* [0, 1] (same sign, no larger magnitude); it returns the displacement
\* itself when next = current + displacement lies in [min, max] or the step
\* moves back toward the range; so the value after the limited step lies
\* between current and next, and inside [min, max] whenever next does.
C12_LimiterOnlyAttenuates ==
    (call.op = "_get_limited_value" /\ result.done) =>
        LET d == call.displacement_value
            next == call.current + d
            after == call.current + result.value
        IN  /\ ~result.raised
            /\ d >= 0 => (0 <= result.value /\ result.value <= d)
            /\ d <= 0 => (d <= result.value /\ result.value <= 0)
            /\ (call.minimum <= next /\ next <= call.maximum)
                  => result.value = d
            /\ (next < call.minimum /\ next >= call.current)
                  => result.value = d
            /\ (next > call.maximum /\ next <= call.current)
                  => result.value = d
            /\ (call.minimum <= next /\ next <= call.maximum)
                  => (call.minimum <= after /\ after <= call.maximum)
            /\ d >= 0 => (call.current <= after /\ after <= next)
            /\ d <= 0 => (next <= after /\ after <= call.current)

\* A step that starts below the range and moves further down was attenuated
C12_Witness ==
    /\ call.op = "_get_limited_value"
    /\ result.done
    /\ call.current < call.minimum
    /\ call.displacement_value < 0
    /\ call.displacement_value < result.value
    /\ result.value < 0

-----------------------------------------------------------------------------
(* C13 *)

\* The bones as the frame before the last completed frame left them
LocationBefore ==
    IF Len(frame_results) <= 1 THEN ZeroBones
    ELSE frame_results[Len(frame_results) - 1].location

RotationBefore ==
    IF Len(frame_results) <= 1 THEN ZeroBones
    ELSE frame_results[Len(frame_results) - 1].rotation_euler

\* value + the range-limited displacement, component by component
LimitedStep(value, displacement, range) ==
    PerAxis(LAMBDA i :
        value[i] + GetLimitedValue(value[i], displacement[i],
                                   range[1][i], range[2][i]))

\* C13: at each frame and for each property of each bone, the value becomes
\* old value + range-limited displacement and a keyframe is inserted if and
\* only if the displacement vector of the property, after momentum and
\* acceleration clamp, is not the zero vector; when it is zero the value is
\* left unchanged and no keyframe is inserted.
C13_KeyframeIffNonZero ==
    FrameCompleted =>
        \A b \in BoneSet :
            /\ IF clamped_displacement_data[b].location # Zero3
               THEN /\ location[b] =
                         LimitedStep(LocationBefore[b],
                                     clamped_displacement_data[b].location,
                                     config.location_range)
                    /\ <<b, "location", current_frame>> \in keyframes
               ELSE /\ location[b] = LocationBefore[b]
                    /\ <<b, "location", current_frame>> \notin keyframes
            /\ IF clamped_displacement_data[b].rotation_euler # Zero3
               THEN /\ rotation_euler[b] =
                         LimitedStep(RotationBefore[b],
                                     clamped_displacement_data[b].rotation_euler,
                                     RotationRange(config, b))
                    /\ <<b, "rotation_euler", current_frame>> \in keyframes
               ELSE /\ rotation_euler[b] = RotationBefore[b]
                    /\ <<b, "rotation_euler", current_frame>> \notin keyframes

\* A frame committed a location of the arm that the range had limited, with
\* a keyframe, and left the arm's rotation alone, without one
C13_Witness ==
    /\ FrameCompleted
    /\ clamped_displacement_data["Arm"].location # Zero3
    /\ previous_displacement_data["Arm"].location
          # clamped_displacement_data["Arm"].location
    /\ location["Arm"] # LocationBefore["Arm"]
    /\ <<"Arm", "location", current_frame>> \in keyframes
    /\ clamped_displacement_data["Arm"].rotation_euler = Zero3
    /\ <<"Arm", "rotation_euler", current_frame>> \notin keyframes

-----------------------------------------------------------------------------
(* C14 *)

\* Declaration i has a bad frame ordering: start_frame >= end_frame or a
\* negative frame
BadFrameOrdering(i) ==
    \/ gestures[i].start_frame < 0
    \/ ConstructorEndFrame(gestures[i]) < 0
    \/ gestures[i].start_frame >= ConstructorEndFrame(gestures[i])

\* C14 (as claimed): a declaration with a bad frame ordering is never
\* silently skipped: the run raises for it, whatever its start_frame is
\* relative to the frames of the other declarations (apply() never returns
\* normally), and it does so before any keyframe has been committed.
C14_BadOrderingFailsFast ==
    (\E i \in Indices : BadFrameOrdering(i)) =>
        /\ pc # "done"
        /\ CommittedKeyframes = {}

-----------------------------------------------------------------------------
(* C15 *)

\* The start and end frames of the constructor calls
CallFrames == (-1)..MaxFrame

WaveTypes ==
    {"TranslationSineGesture", "RotationSineGesture", "RotationWaveGesture"}

\* The calls gesture_type(scene, arm, forearm, hand, **args) of the five
\* gesture classes and the two event classes
GestureInitCalls ==
    { [ op |-> "Gesture.__init__",
        args |-> [Framed(a, s, e) EXCEPT !.wave_period = p,
                                         !.wave_amplitude = w] ] :
        a \in {TranslationRelative, RotationAbsolute, TranslationSine,
               RotationSine, RotationWave},
        s \in CallFrames, e \in CallFrames, p \in {-1, 0, 3},
        w \in {-1000, 0, 2000} }
    \cup
    { [ op |-> "Gesture.__init__", args |-> FramedEvent(a, s) ] :
        a \in {RotationEventRelative, TranslationEventAbsolute},
        s \in CallFrames }

\* A gesture constructor is called on bones at rest: it raises ValueError or
\* returns the object
CallGestureInit ==
    /\ call.op = "Gesture.__init__"
    /\ ~result.done
    /\ result' = IF ConstructorRaises(call.args) THEN RaisedValueError
                  ELSE Returned(GestureObject(1, call.args, ZeroBones, ZeroBones))
    /\ UNCHANGED <<call, sequence_vars>>

\* C15: constructing a Gesture of any class raises ValueError when
\* start_frame < 0, end_frame < 0 or start_frame >= end_frame (an event's
\* end_frame is start_frame + 1), and a sine or wave gesture also when
\* wave_period <= 0; a constructed gesture has 0 <= start_frame < end_frame
\* and a ramp duration that is not zero.
C15_ConstructorRejectsBadFrames ==
    (call.op = "Gesture.__init__" /\ result.done) =>
        LET a == call.args
            e == IF a.type \in EventTypes THEN a.start_frame + 1 ELSE a.end_frame
        IN  /\ (a.start_frame < 0 \/ e < 0 \/ a.start_frame >= e)
                  => result = RaisedValueError
            /\ (a.type \in WaveTypes /\ a.wave_period <= 0)
                  => result = RaisedValueError
            /\ ~result.raised =>
                  /\ 0 <= a.start_frame
                  /\ a.start_frame < e
                  /\ result.value.duration = e - a.start_frame
                  /\ result.value.duration # 0

\* A ramp with start_frame = end_frame >= 1 was refused
C15_Witness ==
    /\ call.op = "Gesture.__init__"
    /\ result = RaisedValueError
    /\ call.args.type = "TranslationGesture"
    /\ call.args.start_frame >= 1
    /\ call.args.start_frame = call.args.end_frame

-----------------------------------------------------------------------------
(* C16 *)

\* The members of the enum Axis, each written as its value
Axis == {"X", "Y", "Z"}

\* Values that are not members of Axis: the strings 'X' and 'W', and None
NotAxis == {"'X'", "'W'", "None"}

\* Axis.index(self.axis) is a dictionary lookup keyed by the members of Axis:
\* any other value raises KeyError
AxisIndexRaises(axis) == axis \notin Axis

RaisedKeyError == [done |-> TRUE, raised |-> TRUE, value |-> "KeyError"]

\* Sine and wave gestures over frames 1..3 with each value of axis
AxisArgs ==
    { [Framed(a, 1, 3) EXCEPT !.axis = x] :
        a \in {TranslationSine, RotationSine, RotationWave},
        x \in Axis \cup NotAxis }

AxisInitCalls == { [op |-> "Gesture.__init__", args |-> a] : a \in AxisArgs }

\* A displacement data whose 18 entries all differ
GatheredDisplacementData ==
    [ Arm |-> [location |-> <<100, 200, 300>>,
               rotation_euler |-> <<400, 500, 600>>],
      Forearm |-> [location |-> <<700, 800, 900>>,
                   rotation_euler |-> <<1000, 1100, 1200>>],
      Hand |-> [location |-> <<1300, 1400, 1500>>,
                rotation_euler |-> <<1600, 1700, 1800>>] ]

\* The displacement data a gesture's apply is handed: the empty one of the
\* first gesture of a frame, or what earlier gestures have gathered
HandedDisplacementData == {DefaultDisplacementData, GatheredDisplacementData}

\* apply(displacement_data, current_frame) of a constructed sine or wave
\* gesture
AxisApplyCalls ==
    { [op |-> "Gesture.apply", args |-> a, current_frame |-> f,
       displacement_data |-> d] :
        a \in AxisArgs, f \in 1..2, d \in HandedDisplacementData }

\* apply(displacement_data, current_frame) of a constructed TranslationGesture
\* or RotationGesture
RampApplyCalls ==
    { [op |-> "Gesture.apply", args |-> Framed(a, 1, 3), current_frame |-> f,
       displacement_data |-> d] :
        a \in {TranslationRelative, TranslationAbsolute,
               RotationRelative, RotationAbsolute},
        f \in 1..2, d \in HandedDisplacementData }

CallGestureApply ==
    /\ call.op = "Gesture.apply"
    /\ ~result.done
    /\ ~ConstructorRaises(call.args)
    /\ result' =
          IF AxisIndexRaises(call.args.axis) THEN RaisedKeyError
          ELSE Returned(GestureApply(
                   GestureObject(1, call.args, ZeroBones, ZeroBones),
                   call.displacement_data, call.current_frame))
    /\ UNCHANGED <<call, sequence_vars>>

\* C16: constructing a RotationSineGesture, TranslationSineGesture or
\* RotationWaveGesture with an axis that is not a member of Axis raises
\* ValueError at construction.
C16_BadAxisRejectedAtConstruction ==
    ( /\ call.op = "Gesture.__init__"
      /\ result.done
      /\ call.args.type \in WaveTypes
      /\ call.args.axis \notin Axis ) => result = RaisedValueError

\* What the code does instead: the bad axis is stored, and every apply of the
\* gesture ends in KeyError
C16_BadAxisFailsInApply ==
    ( /\ call.op = "Gesture.apply"
      /\ result.done ) =>
          (result = RaisedKeyError <=> call.args.axis \notin Axis)

-----------------------------------------------------------------------------
(* C17 *)

\* The checks of GestureSequence.__init__
GestureSequenceInitRaises(cfg) ==
    \/ cfg.translation_acceleration_limit < 0
    \/ cfg.rotation_acceleration_limit < 0
    \/ cfg.momentum_weight < 0
    \/ cfg.momentum_weight > 10

\* GestureSequence(gestures, scene, arm, forearm, hand, ...) with limits of
\* -0.005, 0 and 0.005 and weights of -0.1, 0, 0.7, 1 and 1.1
GestureSequenceInitCalls ==
    { [ op |-> "GestureSequence.__init__",
        config |-> [DefaultConfig EXCEPT
                       !.translation_acceleration_limit = t,
                       !.rotation_acceleration_limit = r,
                       !.momentum_weight = w] ] :
        t \in {-50, 0, 50}, r \in {-50, 0, 50}, w \in {-1, 0, 7, 10, 11} }

CallGestureSequenceInit ==
    /\ call.op = "GestureSequence.__init__"
    /\ ~result.done
    /\ result' = IF GestureSequenceInitRaises(call.config) THEN RaisedValueError
                  ELSE Returned(call.config)
    /\ UNCHANGED <<call, sequence_vars>>

\* C17: constructing a GestureSequence raises ValueError if and only if the
\* translation acceleration limit is not positive, the rotation acceleration
\* limit is not positive, or the momentum weight lies outside [0,1].
C17_RaisesIffNotPositive ==
    (call.op = "GestureSequence.__init__" /\ result.done) =>
        ( result = RaisedValueError <=>
            \/ call.config.translation_acceleration_limit <= 0
            \/ call.config.rotation_acceleration_limit <= 0
            \/ call.config.momentum_weight < 0
            \/ call.config.momentum_weight > 10 )

\* What the code does: it raises if and only if a limit is negative or the
\* weight lies outside [0,1]; a limit of exactly 0 is accepted
C17_RaisesIffNegative ==
    (call.op = "GestureSequence.__init__" /\ result.done) =>
        ( result = RaisedValueError <=>
            \/ call.config.translation_acceleration_limit < 0
            \/ call.config.rotation_acceleration_limit < 0
            \/ call.config.momentum_weight < 0
            \/ call.config.momentum_weight > 10 )

-----------------------------------------------------------------------------
(* C18 *)

\* The largest number of modules given to an operator
MaxModules == 2

GestureNames == {"wave_1", "wave_2"}
ObjectNames == {"lamp_1"}

\* A module: its priority and the names of the gestures and of the blender
\* objects its generate() yields
Modules ==
    [ priority : 1..2, gestures : SUBSET GestureNames,
      blender_objects : SUBSET ObjectNames ]

\* The data module k of the list yields: each entry is tagged with the module
\* that made it.  A missing "gestures" or "blender_objects" key is merged like
\* an empty dictionary.
ModuleData(modules, k) ==
    [ gestures |-> [n \in modules[k].gestures |-> <<k, n>>],
      blender_objects |-> [n \in modules[k].blender_objects |-> <<k, n>>] ]

\* dict.update
DictUpdate(d, u) ==
    [n \in DOMAIN d \cup DOMAIN u |-> IF n \in DOMAIN u THEN u[n] ELSE d[n]]

EmptyDict == [n \in {} |-> n]

\* sorted(positions, key=priority) of the positions of a list of modules:
\* stable, ascending
RECURSIVE SortedByPriority(_, _)
SortedByPriority(modules, positions) ==
    IF positions = <<>> THEN <<>>
    ELSE LET rest == SortedByPriority(modules, Tail(positions))
             m == Head(positions)
             before == Cardinality({i \in 1..Len(rest) :
                          modules[rest[i]].priority < modules[m].priority})
         IN  SubSeq(rest, 1, before) \o <<m>> \o SubSeq(rest, before + 1, Len(rest))

\* _update_input_data as it would be if the gesture names were not tested
UpdateInputDataOverwriting(input_data, update_data) ==
    IF input_data.raised THEN input_data
    ELSE IF DOMAIN update_data.blender_objects
                \cap DOMAIN input_data.blender_objects # {}
    THEN [input_data EXCEPT !.raised = TRUE]
    ELSE [ raised |-> FALSE,
           gestures |-> DictUpdate(input_data.gestures, update_data.gestures),
           blender_objects |-> DictUpdate(input_data.blender_objects,
                                          update_data.blender_objects) ]

\* AllOf.__update_input_data and SomeOf._update_input_data; a ValueError ends
\* the loop of generate
UpdateInputData(input_data, update_data) ==
    IF input_data.raised THEN input_data
    ELSE IF DOMAIN update_data.gestures \cap DOMAIN input_data.gestures # {}
    THEN [input_data EXCEPT !.raised = TRUE]
    ELSE IF DOMAIN update_data.blender_objects
                \cap DOMAIN input_data.blender_objects # {}
    THEN [input_data EXCEPT !.raised = TRUE]
    ELSE [ raised |-> FALSE,
           gestures |-> DictUpdate(input_data.gestures, update_data.gestures),
           blender_objects |-> DictUpdate(input_data.blender_objects,
                                          update_data.blender_objects) ]

\* The loop of generate over the sorted modules
RECURSIVE MergeModules(_, _, _)
MergeModules(modules, sorted_modules, all_of_data) ==
    IF sorted_modules = <<>> THEN all_of_data
    ELSE MergeModules(modules, Tail(sorted_modules),
             UpdateInputData(all_of_data,
                             ModuleData(modules, Head(sorted_modules))))

\* generate, given the positions of the modules that are generated
Generate(modules, positions) ==
    LET all_of_data ==
            MergeModules(modules, SortedByPriority(modules, positions),
                [ raised |-> FALSE, gestures |-> EmptyDict,
                  blender_objects |-> EmptyDict ])
    IN  IF all_of_data.raised THEN RaisedValueError
        ELSE Returned([ gestures |-> all_of_data.gestures,
                        blender_objects |-> all_of_data.blender_objects ])

ModuleLists == SeqsUpTo(Modules, MaxModules) \ {<<>>}

\* random.sample(self.modules, random.randint(1, len(self.modules))): the
\* sequences without repetition of at least one position
Samples(n) ==
    { q \in SeqsUpTo(1..n, n) :
        /\ q # <<>>
        /\ \A i, j \in 1..Len(q) : i # j => q[i] # q[j] }

\* AllOf(modules).generate() of module_operators and of input_data_generation,
\* and SomeOf(modules).generate() with the sample it draws
GenerateCalls ==
    { [ op |-> o, modules |-> ms, sample |-> [k \in 1..Len(ms) |-> k] ] :
        o \in {"module_operators.AllOf.generate",
               "input_data_generation.AllOf.generate"},
        ms \in ModuleLists }
    \cup
    { c \in { [ op |-> "SomeOf.generate", modules |-> ms, sample |-> q ] :
                ms \in ModuleLists, q \in Samples(MaxModules) } :
        \A k \in 1..Len(c.sample) : c.sample[k] <= Len(c.modules) }

CallAllOfGenerate ==
    /\ call.op \in {"module_operators.AllOf.generate",
                    "input_data_generation.AllOf.generate"}
    /\ ~result.done
    /\ result' = Generate(call.modules, [k \in 1..Len(call.modules) |-> k])
    /\ UNCHANGED <<call, sequence_vars>>

CallSomeOfGenerate ==
    /\ call.op = "SomeOf.generate"
    /\ ~result.done
    /\ result' = Generate(call.modules, call.sample)
    /\ UNCHANGED <<call, sequence_vars>>

IsGenerate ==
    call.op \in {"module_operators.AllOf.generate",
                 "input_data_generation.AllOf.generate", "SomeOf.generate"}

\* The positions of the modules that are generated
Generated == {call.sample[k] : k \in 1..Len(call.sample)}

\* Two generated modules yield a gesture (a blender object) of the same name
SameGestureName ==
    \E i, j \in Generated :
        i # j /\ call.modules[i].gestures \cap call.modules[j].gestures # {}

SameObjectName ==
    \E i, j \in Generated :
        /\ i # j
        /\ call.modules[i].blender_objects
              \cap call.modules[j].blender_objects # {}

\* The returned gestures are the union of the generated modules' gestures,
\* each entry as its module made it
ReturnsUnion ==
    /\ ~result.raised
    /\ DOMAIN result.value.gestures
          = UNION {call.modules[i].gestures : i \in Generated}
    /\ \A i \in Generated : \A n \in call.modules[i].gestures :
          result.value.gestures[n] = <<i, n>>

\* C18 as stated: generate raises ValueError when two generated modules yield
\* a gesture with the same name, and otherwise returns the union of the
\* generated modules' gestures with no entry lost or overwritten.
C18_RaisesOnSameNameElseUnion ==
    (IsGenerate /\ result.done) =>
        IF SameGestureName THEN result = RaisedValueError ELSE ReturnsUnion

\* C18 amended: generate raises ValueError when two generated modules yield a
\* gesture with the same name or a blender object with the same name, and
\* otherwise returns the union of the generated modules' gestures with no
\* entry lost or overwritten.
C18_RaisesOnSameNamesElseUnion ==
    (IsGenerate /\ result.done) =>
        IF SameGestureName \/ SameObjectName THEN result = RaisedValueError
        ELSE ReturnsUnion

\* SomeOf merged two modules, the later of the list first, and returned the
\* gestures of both
C18_Witness ==
    /\ call.op = "SomeOf.generate"
    /\ result.done
    /\ Len(call.sample) = 2
    /\ call.modules[1].priority > call.modules[2].priority
    /\ call.modules[1].gestures # {}
    /\ call.modules[2].gestures # {}
    /\ ReturnsUnion

-----------------------------------------------------------------------------
(* C19 *)

\* The value and the name of a member of Axis, as Python strings
AxisValue(member) ==
    CASE member = "X" -> "'X'"
      [] member = "Y" -> "'Y'"
      [] member = "Z" -> "'Z'"

AxisName(member) ==
    CASE member = "X" -> "'X_AXIS'"
      [] member = "Y" -> "'Y_AXIS'"
      [] member = "Z" -> "'Z_AXIS'"

\* The strings given as "axis" in the gesture args
AxisStrings ==
    {"'X'", "'Y'", "'Z'", "'x'", "'W'", "''", "'X_AXIS'", "'Y_AXIS'", "'Z_AXIS'"}

\* Axis.is_valid_axis_string
IsValidAxisString(axis_str) == \E member \in Axis : axis_str = AxisValue(member)

\* axis_name in Axis.__members__: the keys of __members__ are the names
InAxisMembers(axis_name) == \E member \in Axis : axis_name = AxisName(member)

\* Axis(axis_name): the member with that value, ValueError if there is none
AxisOfValue(axis_name) ==
    IF \E member \in Axis : AxisValue(member) = axis_name
    THEN Returned(CHOOSE member \in Axis : AxisValue(member) = axis_name)
    ELSE RaisedValueError

\* The axis step of InputDataParser._parse_gestures
InputDataParserAxis(axis_name) ==
    IF ~IsValidAxisString(axis_name) THEN RaisedValueError
    ELSE AxisOfValue(axis_name)

\* The axis step of InputFileParser._parse_gestures
InputFileParserAxis(axis_name) ==
    IF ~InAxisMembers(axis_name) THEN RaisedValueError
    ELSE AxisOfValue(axis_name)

ParseGesturesCalls ==
    { [ op |-> o, axis |-> a ] :
        o \in {"InputDataParser._parse_gestures",
               "InputFileParser._parse_gestures"},
        a \in AxisStrings }

CallInputDataParser ==
    /\ call.op = "InputDataParser._parse_gestures"
    /\ ~result.done
    /\ result' = InputDataParserAxis(call.axis)
    /\ UNCHANGED <<call, sequence_vars>>

CallInputFileParser ==
    /\ call.op = "InputFileParser._parse_gestures"
    /\ ~result.done
    /\ result' = InputFileParserAxis(call.axis)
    /\ UNCHANGED <<call, sequence_vars>>

\* The result the claim gives for an axis string
AcceptsExactlyXYZ ==
    result = CASE call.axis = "'X'" -> Returned("X")
               [] call.axis = "'Y'" -> Returned("Y")
               [] call.axis = "'Z'" -> Returned("Z")
               [] OTHER -> RaisedValueError

\* C19: both gesture parsers accept exactly the axis strings "X", "Y" and
\* "Z", converting each to the corresponding member of Axis, and raise
\* ValueError for every other axis string.
C19_BothParsersAcceptXYZ ==
    ( /\ call.op \in {"InputDataParser._parse_gestures",
                      "InputFileParser._parse_gestures"}
      /\ result.done ) => AcceptsExactlyXYZ

\* What the code does: InputDataParser behaves as claimed; InputFileParser
\* raises ValueError for every axis string, "X", "Y" and "Z" included
C19_DataParserAcceptsXYZ ==
    (call.op = "InputDataParser._parse_gestures" /\ result.done)
        => AcceptsExactlyXYZ

C19_FileParserRejectsAll ==
    (call.op = "InputFileParser._parse_gestures" /\ result.done)
        => result = RaisedValueError

-----------------------------------------------------------------------------
(* C20 *)

\* Gesture j starts at the frame gesture i ends
HandsOver(i, j) == i # j /\ DeclaredEnd(gestures[i]) = gestures[j].start_frame

\* C20: when gesture A's end_frame equals gesture B's start_frame f and the
\* turn of the loop at f was completed, B was constructed at f and applied at
\* f, and A was not applied at f; right after that turn B is active and A is
\* not.
C20_RetiredBeforePromoted ==
    \A i, j \in Indices :
        (HandsOver(i, j) /\ completed_frame >= DeclaredEnd(gestures[i])) =>
            LET f == DeclaredEnd(gestures[i])
            IN  /\ <<j, f>> \in constructed
                /\ <<j, f>> \in applied
                /\ <<i, f>> \notin applied
                /\ (FrameCompleted /\ current_frame = f)
                      => (IsActive(j) /\ ~IsActive(i))

\* A was applied on its last frame and B on the next, which is A's end_frame
C20_Witness ==
    \E i, j \in Indices :
        /\ HandsOver(i, j)
        /\ FrameCompleted
        /\ current_frame = DeclaredEnd(gestures[i])
        /\ <<i, DeclaredEnd(gestures[i]) - 1>> \in applied
        /\ <<j, DeclaredEnd(gestures[i])>> \in applied
        /\ IsActive(j)

-----------------------------------------------------------------------------
(* C21 *)

\* The bones as completed frame k left them (at rest before frame 1)
BonesAfter(k) ==
    IF k = 0 THEN [location |-> ZeroBones, rotation_euler |-> ZeroBones]
    ELSE [ location |-> frame_results[k].location,
           rotation_euler |-> frame_results[k].rotation_euler ]

\* What completed frame k added to each bone
AddedAt(k) ==
    PerBone(LAMBDA b :
        [ location |-> VSub(BonesAfter(k).location[b],
                            BonesAfter(k - 1).location[b]),
          rotation_euler |-> VSub(BonesAfter(k).rotation_euler[b],
                                  BonesAfter(k - 1).rotation_euler[b]) ])

\* C21: the displacement the momentum and acceleration stages of frame f + 1
\* use as previous is the displacement of frame f after the range limits,
\* which is what frame f added to the joints, and after a completed frame it
\* is that frame's range-limited displacement that is stored.
C21_PreviousIsRangeLimited ==
    /\ FrameCompleted => previous_displacement_data = limited_displacement_data
    /\ (FrameCompleted /\ Len(frame_results) >= 2) =>
          LET before == frame_results[Len(frame_results) - 1]
          IN  /\ before.limited = AddedAt(Len(frame_results) - 1)
              /\ blended_displacement_data =
                    Momentum(raw_displacement_data, before.limited,
                             config.momentum_weight)
              /\ clamped_displacement_data =
                    LimitAcceleration(blended_displacement_data, before.limited,
                                      config)

\* The range limit shortened the arm's step of the frame before, and the
\* smoothing of the last frame would have come out differently with the
\* unshortened step
C21_Witness ==
    /\ FrameCompleted
    /\ Len(frame_results) >= 2
    /\ LET before == frame_results[Len(frame_results) - 1]
       IN  /\ before.limited["Arm"].location # before.clamped["Arm"].location
           /\ clamped_displacement_data #
                 LimitAcceleration(
                     Momentum(raw_displacement_data, before.clamped,
                              config.momentum_weight),
                     before.clamped, config)

-----------------------------------------------------------------------------
(* C22 *)

\* The frames at which declaration i was applied
AppliedFrames(i) == {f \in 0..end_frame : <<i, f>> \in applied}

\* Declaration i was promoted and contributed on end_frame - start_frame frames
PromotedAndApplied(i) ==
    /\ WasConstructed(i)
    /\ Cardinality(AppliedFrames(i)) = DeclaredEnd(gestures[i]) - gestures[i].start_frame

\* C22: when every declaration of a list of gestures passes the constructor's
\* frame checks (0 <= start_frame < end_frame), each of them has been promoted
\* and has contributed on exactly end_frame - start_frame frames by the time
\* apply() returns.
C22_EveryValidDeclarationPromoted ==
    (pc = "done" /\ ConstructsWithoutError /\ ~HasEvent) =>
        \A i \in Indices : PromotedAndApplied(i)

\* What the code does: the declarations with start_frame >= 1 are promoted
\* and contribute on end_frame - start_frame frames; a declaration with
\* start_frame = 0 is never constructed and never applied
C22_PromotedUnlessStartingAtZero ==
    (pc = "done" /\ ConstructsWithoutError /\ ~HasEvent) =>
        \A i \in Indices :
            IF gestures[i].start_frame >= 1 THEN PromotedAndApplied(i)
            ELSE ~WasConstructed(i) /\ AppliedFrames(i) = {}

-----------------------------------------------------------------------------
(* C23 *)

\* C23 as stated: when apply() returns, the remaining queue and the active
\* set are empty.
C23_AllRetiredAtReturn ==
    pc = "done" => (remaining_gestures = <<>> /\ current_gestures = <<>>)

\* C23 amended: when apply() returns, a declaration is still in the active
\* set exactly when its start_frame is at least 1 and its end_frame is the
\* maximum end frame, it is still in the remaining queue exactly when its
\* start_frame is 0 or not below the maximum end frame, and every other
\* declaration is retired.
C23_RetiredUnlessLastOrNeverStarted ==
    pc = "done" =>
        \A i \in Indices :
            LET starts_in_loop == /\ gestures[i].start_frame >= 1
                                  /\ gestures[i].start_frame < EndFrameMax
            IN  /\ IsActive(i) <=>
                      (starts_in_loop /\ DeclaredEnd(gestures[i]) = EndFrameMax)
                /\ IsPending(i) <=> ~starts_in_loop
                /\ ~(IsActive(i) /\ IsPending(i))

\* apply() returned with one gesture retired, one still in the active set
\* and nothing left in the remaining queue
C23_Witness ==
    /\ pc = "done"
    /\ remaining_gestures = <<>>
    /\ \E i, j \in Indices :
          /\ WasConstructed(i) /\ ~IsActive(i)
          /\ IsActive(j)

-----------------------------------------------------------------------------
(* C24 *)

\* Where declaration i is: "Pending" (remaining queue), "Active" (active
\* set), "Retired" (neither), or "Both"
Stage(i) ==
    CASE IsPending(i) /\ IsActive(i) -> "Both"
      [] IsPending(i) /\ ~IsActive(i) -> "Pending"
      [] ~IsPending(i) /\ IsActive(i) -> "Active"
      [] OTHER -> "Retired"

StageSet(stage) == {i \in Indices : Stage(i) = stage}

\* The frames at which declaration i was constructed
ConstructedFrames(i) == {f \in 0..end_frame : <<i, f>> \in constructed}

\* A gesture constructor has raised
ConstructorRaised ==
    \E c \in constructed : ConstructorRaises(gestures[c[1]])

\* The stage of declaration i in the next state
StageNext(i) ==
    LET pending == \E k \in 1..Len(remaining_gestures') : remaining_gestures'[k] = i
        active == \E k \in 1..Len(current_gestures') : current_gestures'[k].index = i
    IN  CASE pending /\ active -> "Both"
          [] pending /\ ~active -> "Pending"
          [] ~pending /\ active -> "Active"
          [] OTHER -> "Retired"

\* The moves Pending -> Active -> Retired
MovesForward(i) ==
    \/ StageNext(i) = Stage(i)
    \/ Stage(i) = "Pending" /\ StageNext(i) = "Active"
    \/ Stage(i) = "Active" /\ StageNext(i) = "Retired"

ExactlyOneStage ==
    /\ \A i \in Indices : Stage(i) # "Both"
    /\ \A i \in Indices : Cardinality(ConstructedFrames(i)) <= 1
    /\ Len(remaining_gestures) + Len(current_gestures)
          + Cardinality(StageSet("Retired")) = Len(gestures)

\* C24 as stated: in every state of apply() each declaration is in exactly
\* one of Pending, Active and Retired, is constructed at most once, the three
\* counts add up to the number of declarations, and a declaration only moves
\* Pending -> Active -> Retired.
C24_PartitionAlways ==
    /\ [](ExactlyOneStage)
    /\ [][\A i \in Indices : MovesForward(i)]_vars

\* What the code does: the same holds as long as no gesture constructor has
\* raised; in the update in which a constructor raises, the declarations
\* promoted before it in that update are in the active set and still in the
\* remaining queue, and the one that raised is still in the remaining queue
C24_PartitionUnlessConstructorRaised ==
    /\ [](~ConstructorRaised => ExactlyOneStage)
    /\ [](ConstructorRaised =>
            /\ pc = "raised"
            /\ \A i \in Indices :
                  /\ Cardinality(ConstructedFrames(i)) <= 1
                  /\ Stage(i) = "Both" =>
                        /\ <<i, current_frame>> \in constructed
                        /\ ~ConstructorRaises(gestures[i])
                  /\ (<<i, current_frame>> \in constructed
                        /\ ConstructorRaises(gestures[i])) => Stage(i) = "Pending")
    /\ [][\A i \in Indices :
            \/ MovesForward(i)
            \/ /\ Stage(i) = "Pending"
               /\ StageNext(i) = "Both"
               /\ pc' = "raised"
               /\ <<i, current_frame'>> \in constructed']_vars

-----------------------------------------------------------------------------
(* C25 *)

\* The last completed frame ran with an empty active set
NothingActive == FrameCompleted /\ current_gestures = <<>>

\* The last completed frame changed no joint and inserted no keyframe
NoMotion ==
    /\ location = LocationBefore
    /\ rotation_euler = RotationBefore
    /\ \A b \in BoneSet :
          /\ <<b, "location", current_frame>> \notin keyframes
          /\ <<b, "rotation_euler", current_frame>> \notin keyframes

\* C25 as stated: at any frame at which the active set is empty, no joint
\* location or rotation changes and no keyframe is inserted.
C25_NoMotionWhenNothingActive == NothingActive => NoMotion

\* C25 amended: at a frame at which the active set is empty the gestures
\* contribute nothing and the momentum stage leaves previous * momentum_weight
\* of each component; no joint changes and no keyframe is inserted if the
\* displacement stored by the frame before is zero, or if momentum_weight = 0
\* and the stored displacement is within the acceleration limits.
C25_MomentumCarriesOnWhenNothingActive ==
    NothingActive =>
        LET previous == StoredBefore(Len(frame_results))
        IN  /\ raw_displacement_data = DefaultDisplacementData
            /\ \A b \in BoneSet : \A i \in 1..3 :
                  /\ blended_displacement_data[b].location[i] =
                        Blend(previous[b].location[i], 0, config.momentum_weight)
                  /\ blended_displacement_data[b].rotation_euler[i] =
                        Blend(previous[b].rotation_euler[i], 0,
                              config.momentum_weight)
            /\ previous = DefaultDisplacementData => NoMotion
            /\ ( /\ config.momentum_weight = 0
                 /\ \A b \in BoneSet : \A i \in 1..3 :
                       /\ Abs(previous[b].location[i])
                             <= config.translation_acceleration_limit
                       /\ Abs(previous[b].rotation_euler[i])
                             <= config.rotation_acceleration_limit ) => NoMotion

\* After the only active gesture was retired, a frame with an empty active
\* set moved the arm and inserted a keyframe
C25_Witness ==
    /\ NothingActive
    /\ \E i \in Indices : WasConstructed(i)
    /\ location["Arm"] # LocationBefore["Arm"]
    /\ <<"Arm", "location", current_frame>> \in keyframes

-----------------------------------------------------------------------------
(* C26 *)

\* The joint components with a finite range: <<bone, property, axis index>>
FiniteComponents ==
    { c \in BoneSet \X {"location", "rotation_euler"} \X (1..3) :
        LET range == IF c[2] = "location" THEN config.location_range
                     ELSE RotationRange(config, c[1])
        IN  range[1][c[3]] > -Inf /\ range[2][c[3]] < Inf }

Minimum(c) ==
    IF c[2] = "location" THEN config.location_range[1][c[3]]
    ELSE RotationRange(config, c[1])[1][c[3]]

Maximum(c) ==
    IF c[2] = "location" THEN config.location_range[2][c[3]]
    ELSE RotationRange(config, c[1])[2][c[3]]

\* The component after the last completed frame, and before it
ValueAfter(c) ==
    IF c[2] = "location" THEN location[c[1]][c[3]] ELSE rotation_euler[c[1]][c[3]]

ValueBefore(c) ==
    IF c[2] = "location" THEN LocationBefore[c[1]][c[3]]
    ELSE RotationBefore[c[1]][c[3]]

\* C26 as stated: every joint component with a finite range, within
\* [min, max] before apply(), lies within [min, max] after every frame.
C26_AlwaysWithinRange ==
    FrameCompleted =>
        \A c \in FiniteComponents :
            Minimum(c) <= ValueAfter(c) /\ ValueAfter(c) <= Maximum(c)

\* C26 amended: a joint component with a finite range that lies within
\* [min, max] before a frame lies within [min - 0.06, max + 0.06] after it;
\* the range is a soft limit that a component can pass.
C26_WithinSoftMargin ==
    FrameCompleted =>
        \A c \in FiniteComponents :
            (Minimum(c) <= ValueBefore(c) /\ ValueBefore(c) <= Maximum(c)) =>
                /\ Minimum(c) - (6 * Scale) \div 100 <= ValueAfter(c)
                /\ ValueAfter(c) <= Maximum(c) + (6 * Scale) \div 100

\* A frame took the arm's location from inside its range to outside, by a
\* step the limiter had shortened
C26_Witness ==
    /\ FrameCompleted
    /\ \E c \in FiniteComponents :
          /\ c[1] = "Arm" /\ c[2] = "location"
          /\ ValueBefore(c) <= Maximum(c)
          /\ ValueAfter(c) > Maximum(c)
          /\ limited_displacement_data["Arm"].location[c[3]]
                < clamped_displacement_data["Arm"].location[c[3]]

-----------------------------------------------------------------------------
(* C27 *)

\* The acceleration limit of a property
AccelerationLimit(property) ==
    IF property = "location" THEN config.translation_acceleration_limit
    ELSE config.rotation_acceleration_limit

Components == BoneSet \X {"location", "rotation_euler"} \X (1..3)

\* Component c of a displacement data
Component(displacement_data, c) == displacement_data[c[1]][c[2]][c[3]]

\* The displacement committed by the frame before the last completed frame
CommittedBefore == StoredBefore(Len(frame_results))

\* C27 as stated: for every joint component, the displacements committed by
\* two consecutive frames differ by at most the acceleration limit of the
\* motion kind.
C27_CommittedJumpWithinLimit ==
    FrameCompleted =>
        \A c \in Components :
            Abs(Component(limited_displacement_data, c)
                  - Component(CommittedBefore, c)) <= AccelerationLimit(c[2])

\* C27 amended: the committed displacement of a component grows in magnitude
\* by at most the acceleration limit from one frame to the next, and differs
\* from the committed displacement of the frame before by at most the limit
\* whenever the range limit left the step as it was; a step that the range
\* limit shortened can fall by more than the limit.
C27_CommittedGrowthWithinLimit ==
    FrameCompleted =>
        \A c \in Components :
            LET committed == Component(limited_displacement_data, c)
                clamped == Component(clamped_displacement_data, c)
                before == Component(CommittedBefore, c)
            IN  /\ Abs(committed) <= Abs(before) + AccelerationLimit(c[2])
                /\ Abs(committed) <= Abs(clamped)
                /\ committed = clamped =>
                      Abs(committed - before) <= AccelerationLimit(c[2])

\* The range limit shortened a step and the committed displacement fell by
\* more than the translation limit
C27_Witness ==
    /\ FrameCompleted
    /\ config.translation_acceleration_limit < WideLimit
    /\ LET c == <<"Arm", "location", 1>>
       IN  /\ Component(limited_displacement_data, c)
                 # Component(clamped_displacement_data, c)
           /\ Component(CommittedBefore, c)
                 - Component(limited_displacement_data, c)
                 > config.translation_acceleration_limit

-----------------------------------------------------------------------------
(* C28 *)

\* The most octaves the model draws for an axis
MaxOctaves == 2

\* The n_octaves_range values the constructor accepts: 1 <= minimum <= maximum
NOctavesRanges ==
    { r \in (1..(MaxOctaves + 1)) \X (1..(MaxOctaves + 1)) : r[1] <= r[2] }

\* np.random.randint(low, high) draws from low..high-1 and raises ValueError
\* when low >= high
RandintRaises(range) == range[1] >= range[2]

Randint(range) == range[1]..(range[2] - 1)

\* What np.random.uniform draws for one octave: a period in turns per second
\* and an amplitude
OctaveDraws ==
    { [period |-> 1, amplitude |-> 1000], [period |-> 3, amplitude |-> 2000] }

\* The values of persistance the constructor accepts: 0, 0.5 and 1
Persistances == {0, Scale \div 2, Scale}

\* The draws of the octaves of one axis
AxisDraws == SeqsUpTo(OctaveDraws, MaxOctaves)

\* The draws of the octaves of Z, which always finds the same values
AxisDrawsOfZ ==
    SeqsUpTo({[period |-> 1, amplitude |-> 1000]}, MaxOctaves)

\* The draws of one axis that np.random.randint over range allows: one per
\* octave, and none when randint raises
DrawnFor(range, drawn) ==
    IF RandintRaises(range) THEN drawn = <<>>
    ELSE Len(drawn) \in Randint(range)

\* generate() of a constructed PerlinRotationWaveGestureModuleGenerator, with
\* what its draws return
PerlinCalls ==
    { c \in { [ op |-> "PerlinRotationWaveGestureModuleGenerator.generate",
                start_frame |-> s, end_frame |-> s + 2,
                persistance |-> p, n_octaves_range |-> r,
                draws |-> [X |-> x, Y |-> y, Z |-> z] ] :
                s \in 1..2, p \in Persistances, r \in NOctavesRanges,
                x \in AxisDraws, y \in AxisDraws, z \in AxisDrawsOfZ } :
        \A axis \in Axis : DrawnFor(c.n_octaves_range, c.draws[axis]) }

\* (2 ** octave) * period
WavePeriodOfFirstOctave(octave, period) == period

WavePeriod(octave, period) == (2 ^ octave) * period

\* persistance ** octave
RECURSIVE PersistancePower(_, _)
PersistancePower(persistance, octave) ==
    IF octave = 0 THEN Scale
    ELSE RDiv(persistance * PersistancePower(persistance, octave - 1), Scale)

\* The args of perlin_data["gestures"][f"{id}_{axis}_{octave}"]
PerlinEntry(c, axis, octave) ==
    LET drawn == c.draws[axis][octave + 1]
    IN  [ Args("RotationWaveGesture", "Arm", axis, Zero3, TRUE) EXCEPT
            !.start_frame = c.start_frame,
            !.end_frame = c.end_frame,
            !.wave_period = WavePeriod(octave, drawn.period),
            !.wave_amplitude =
                RDiv(PersistancePower(c.persistance, octave) * drawn.amplitude,
                     Scale),
            !.phase_shift = 0,
            !.forearm_phase_shift = 0,
            !.hand_phase_shift = 0 ]

\* PerlinRotationWaveGestureModuleGenerator.generate: the declared gestures,
\* keyed by (axis, octave)
PerlinGenerate(c) ==
    IF RandintRaises(c.n_octaves_range) THEN RaisedValueError
    ELSE Returned(
           [ key \in { k \in Axis \X (0..(MaxOctaves - 1)) :
                         k[2] < Len(c.draws[k[1]]) }
               |-> PerlinEntry(c, key[1], key[2]) ])

CallPerlinGenerate ==
    /\ call.op = "PerlinRotationWaveGestureModuleGenerator.generate"
    /\ ~result.done
    /\ result' = PerlinGenerate(call)
    /\ UNCHANGED <<call, sequence_vars>>

PerlinDone ==
    /\ call.op = "PerlinRotationWaveGestureModuleGenerator.generate"
    /\ result.done

\* amplitude multiplied by the call's persistance, octave times
RECURSIVE TimesPersistance(_, _)
TimesPersistance(amplitude, octave) ==
    IF octave = 0 THEN amplitude
    ELSE RDiv(call.persistance * TimesPersistance(amplitude, octave - 1), Scale)

\* Octaves 0..N-1 of every axis are declared, as RotationWaveGesture entries
\* with the generator's frames and the amplitude persistance^k * amplitude
DeclaresOctaves ==
    /\ ~result.raised
    /\ DOMAIN result.value =
          { k \in Axis \X (0..(MaxOctaves - 1)) : k[2] < Len(call.draws[k[1]]) }
    /\ \A key \in DOMAIN result.value :
          LET entry == result.value[key]
              drawn == call.draws[key[1]][key[2] + 1]
          IN  /\ entry.type = "RotationWaveGesture"
              /\ entry.axis = key[1]
              /\ entry.start_frame = call.start_frame
              /\ entry.end_frame = call.end_frame
              /\ entry.wave_amplitude
                    = TimesPersistance(drawn.amplitude, key[2])

-----------------------------------------------------------------------------
(* C29 *)

\* The entries (bone, property, index) of a displacement data
Entries ==
    {"Arm", "Forearm", "Hand"} \X {"location", "rotation_euler"} \X (1..3)

Entry(displacement_data, e) == displacement_data[e[1]][e[2]][e[3]]

\* The entries the claim gives each gesture to change
TargetEntries(args) ==
    CASE args.type = "TranslationGesture" ->
            { e \in Entries : e[1] = "Arm" /\ e[2] = "location" }
      [] args.type = "TranslationSineGesture" ->
            { e \in Entries : /\ e[1] = "Arm"
                              /\ e[2] = "location"
                              /\ e[3] = AxisIndex(args.axis) }
      [] args.type = "RotationGesture" ->
            { e \in Entries : e[1] = args.bone /\ e[2] = "rotation_euler" }
      [] args.type = "RotationSineGesture" ->
            { e \in Entries : /\ e[1] = args.bone
                              /\ e[2] = "rotation_euler"
                              /\ e[3] = AxisIndex(args.axis) }
      [] args.type = "RotationWaveGesture" ->
            { e \in Entries : /\ e[2] = "rotation_euler"
                              /\ e[3] = AxisIndex(args.axis) }

ApplyReturned ==
    /\ call.op = "Gesture.apply"
    /\ result.done
    /\ ~result.raised

\* C29: the apply of TranslationGesture, TranslationSineGesture,
\* RotationGesture, RotationSineGesture and RotationWaveGesture changes only
\* its own target entries of the displacement data (the arm's location, its
\* chosen-axis component, the chosen bone's rotation, its chosen-axis
\* component, the chosen-axis rotation component of the three joints); every
\* other entry is returned as it was handed in.
C29_OnlyOwnEntriesChange ==
    ApplyReturned =>
        \A e \in Entries \ TargetEntries(call.args) :
            Entry(result.value, e) = Entry(call.displacement_data, e)

\* An apply on gathered displacement data that changed each of its target
\* entries
C29_Witness ==
    /\ ApplyReturned
    /\ call.displacement_data = GatheredDisplacementData
    /\ call.args.type = "RotationWaveGesture"
    /\ \A e \in TargetEntries(call.args) :
          Entry(result.value, e) # Entry(call.displacement_data, e)
    /\ C29_OnlyOwnEntriesChange

-----------------------------------------------------------------------------
(* C30 *)

\* C30: after apply() returns, the scene's frame_end is greater than or equal
\* to its frame_start (0), for every gesture declaration list including the
\* empty list.
C30_EndNotBeforeStart ==
    pc = "done" => frame_end >= frame_start

\* What the code does: frame_start is 0 and frame_end is one less than the
\* maximum declared end frame, which is -1 for the empty list and for a list
\* whose declarations all end at frame 0
C30_EndIsOneBeforeEndFrameMax ==
    pc = "done" =>
        /\ frame_start = 0
        /\ frame_end = EndFrameMax - 1
        /\ gestures = <<>> => frame_end = -1
        /\ frame_end >= frame_start
              <=> \E i \in Indices : DeclaredEnd(gestures[i]) >= 1

-----------------------------------------------------------------------------
(* The specification of the single calls *)

Calls ==
    LimitedValueCalls \cup GestureInitCalls \cup AxisInitCalls \cup AxisApplyCalls
    \cup GestureSequenceInitCalls
    \cup GenerateCalls
    \cup ParseGesturesCalls
    \cup PerlinCalls
    \cup RampApplyCalls

CallInit ==
    /\ AtConstruction(<<>>, DefaultConfig)
    /\ call \in Calls
    /\ result = NoResult

CallNext ==
    \/ CallGetLimitedValue
    \/ CallGestureInit
    \/ CallGestureApply
    \/ CallGestureSequenceInit
    \/ CallAllOfGenerate
    \/ CallSomeOfGenerate
    \/ CallInputDataParser
    \/ CallInputFileParser
    \/ CallPerlinGenerate

CallSpec == CallInit /\ [][CallNext]_vars

====
